---- MODULE Spec2Model ----
(***************************************************************************)
(* Model of the declaration merge engine, the tools-reference merge and    *)
(* the parameter schema compilers of workflows-mcp                         *)
(* (packages/mcp-server/src/config.ts, packages/mcpn/src/utils.ts).        *)
(*                                                                         *)
(* JavaScript values are tagged records [t |-> tag, v |-> payload]:        *)
(*   a string is a sequence of text atoms: the atoms "," and " " are the   *)
(*   comma and the blank, every other atom is a run of other characters;   *)
(*   an object is the sequence of its own properties [k |-> key, v |->     *)
(*   value] in insertion order, a key being a string payload.              *)
(***************************************************************************)
EXTENDS Integers, Sequences, FiniteSets, TLC

VARIABLES heap, ret, hist, pre, call,
          mtTarget, mtSource, mtOut, mtRev, mtPc,
          params, path, wire, res, resFull, scPc,
          cpShape, cpValue, cpNode, cpVerdict, cpPc,
          tpTemplate, tpParams, tpOut, tpPc,
          ftBase, ftTools, ftMode, ftText, ftPc,
          trRef, trAlt, trMode, trList, trAltList, trText, trAltText, trPc,
          stStore, stRoots, stParsed, stBefore, stGot, stPc,
          vcConfig, vcName, vcOut, vcPc,
          irTemplate, irA, irB, irFirst, irSecond, irOnce, irPc,
          psNames, psFiles, psOut, psPc

vars == <<heap, ret, hist, pre, call, mtTarget, mtSource, mtOut, mtRev, mtPc,
          params, path, wire, res, resFull, scPc,
          cpShape, cpValue, cpNode, cpVerdict, cpPc,
          tpTemplate, tpParams, tpOut, tpPc,
          ftBase, ftTools, ftMode, ftText, ftPc,
          trRef, trAlt, trMode, trList, trAltList, trText, trAltText, trPc,
          stStore, stRoots, stParsed, stBefore, stGot, stPc,
          vcConfig, vcName, vcOut, vcPc,
          irTemplate, irA, irB, irFirst, irSecond, irOnce, irPc,
          psNames, psFiles, psOut, psPc>>

foldVars == <<heap, ret, hist, pre, call>>
toolVars == <<mtTarget, mtSource, mtOut, mtRev, mtPc>>
schemaVars == <<params, path, wire, res, resFull, scPc>>
compileVars == <<cpShape, cpValue, cpNode, cpVerdict, cpPc>>
templateVars == <<tpTemplate, tpParams, tpOut, tpPc>>
formatVars == <<ftBase, ftTools, ftMode, ftText, ftPc>>
toolsRefVars == <<trRef, trAlt, trMode, trList, trAltList, trText, trAltText, trPc>>
storeVars == <<stStore, stRoots, stParsed, stBefore, stGot, stPc>>
validateVars == <<vcConfig, vcName, vcOut, vcPc>>
incrVars == <<irTemplate, irA, irB, irFirst, irSecond, irOnce, irPc>>
presetVars == <<psNames, psFiles, psOut, psPc>>
restVars == <<toolsRefVars, storeVars, validateVars, incrVars, presetVars>>
coreVars == <<foldVars, toolVars, schemaVars, compileVars, templateVars, formatVars>>

(***************************************************************************)
(* Bounds                                                                  *)
(***************************************************************************)
MaxSources == 2
MaxStrLen == 3
MaxDepth == 2
MaxPieces == 3
MaxTools == 2

(***************************************************************************)
(* JavaScript values                                                       *)
(***************************************************************************)
Undef == [t |-> "undef"]
Null == [t |-> "null"]
Str(s) == [t |-> "str", v |-> s]
Bool(b) == [t |-> "bool", v |-> b]
Num(n) == [t |-> "num", v |-> n]
Obj(es) == [t |-> "obj", v |-> es]
Ent(k, v) == [k |-> k, v |-> v]
EmptyStr == Str(<< >>)

\* !x : undefined, null, "", false and 0 are falsy
Truthy(x) ==
  CASE x.t = "undef" -> FALSE
    [] x.t = "null" -> FALSE
    [] x.t = "str" -> x.v # << >>
    [] x.t = "bool" -> x.v
    [] x.t = "num" -> x.v # 0
    [] OTHER -> TRUE

\* typeof x (typeof null is "object")
TypeOf(x) ==
  CASE x.t = "undef" -> "undefined"
    [] x.t = "str" -> "string"
    [] x.t = "bool" -> "boolean"
    [] x.t = "num" -> "number"
    [] OTHER -> "object"

\* the own properties of x, as Object.entries(x) and {...x} see them
\* (none for undefined and null)
Entries(x) == IF x.t = "obj" THEN x.v ELSE << >>

HasKey(es, k) == \E i \in DOMAIN es : es[i].k = k

\* x[k], x?.k : undefined when x has no such property or is null/undefined
Get(x, k) ==
  LET es == Entries(x)
  IN IF HasKey(es, k) THEN es[CHOOSE i \in DOMAIN es : es[i].k = k].v ELSE Undef

\* x[k] = v on a property list: an existing property keeps its position
Put(es, k, v) ==
  IF HasKey(es, k)
  THEN [i \in DOMAIN es |-> IF es[i].k = k THEN Ent(k, v) ELSE es[i]]
  ELSE Append(es, Ent(k, v))

RECURSIVE PutAll(_, _)
\* the properties of `more` assigned one by one, in order, onto `es`
PutAll(es, more) ==
  IF more = << >> THEN es
  ELSE PutAll(Put(es, Head(more).k, Head(more).v), Tail(more))

\* {...a, ...b}
Spread2(a, b) == PutAll(PutAll(<< >>, Entries(a)), Entries(b))

\* Object.fromEntries(pairs)
FromEntries(pairs) == PutAll(<< >>, pairs)

Keys(x) == {Entries(x)[i].k : i \in DOMAIN Entries(x)}

(***************************************************************************)
(* Strings                                                                 *)
(***************************************************************************)
Comma == ","
Blank == " "

RECURSIVE SplitFrom(_, _)
\* s.split(",") on a payload, `cur` being the piece read so far
SplitFrom(s, cur) ==
  IF s = << >> THEN <<cur>>
  ELSE IF Head(s) = Comma THEN <<cur>> \o SplitFrom(Tail(s), << >>)
  ELSE SplitFrom(Tail(s), Append(cur, Head(s)))

Split(s) == SplitFrom(s, << >>)

RECURSIVE TrimLeft(_)
TrimLeft(s) == IF s # << >> /\ Head(s) = Blank THEN TrimLeft(Tail(s)) ELSE s

RECURSIVE TrimRight(_)
TrimRight(s) ==
  IF s # << >> /\ s[Len(s)] = Blank THEN TrimRight(SubSeq(s, 1, Len(s) - 1)) ELSE s

\* s.trim()
Trim(s) == TrimRight(TrimLeft(s))

\* s.split(",").map((t) => t.trim())
SplitTrim(s) == [i \in DOMAIN Split(s) |-> Trim(Split(s)[i])]

RECURSIVE Dedupe(_, _)
\* Array.from(new Set(xs)): first occurrences, in order
Dedupe(xs, seen) ==
  IF xs = << >> THEN << >>
  ELSE IF Head(xs) \in seen THEN Dedupe(Tail(xs), seen)
  ELSE <<Head(xs)>> \o Dedupe(Tail(xs), seen \cup {Head(xs)})

RECURSIVE Join(_, _)
\* xs.join(sep)
Join(xs, sep) ==
  IF xs = << >> THEN << >>
  ELSE IF Len(xs) = 1 THEN Head(xs)
  ELSE Head(xs) \o sep \o Join(Tail(xs), sep)

(***************************************************************************)
(* mergeTools (config.ts 133-183)                                          *)
(***************************************************************************)
\* a normalisation that gives every name of a string side a full record
ToolsAsObject_Record(x) ==
  IF x.t = "str"
  THEN Obj(FromEntries([i \in DOMAIN SplitTrim(x.v) |->
         Ent(SplitTrim(x.v)[i],
             Obj(<<Ent(<<"description">>, EmptyStr), Ent(<<"prompt">>, EmptyStr),
                   Ent(<<"optional">>, Bool(FALSE))>>))]))
  ELSE x

\* lines 155-163: a string side becomes name -> "" ; another side is kept
ToolsAsObject(x) ==
  IF x.t = "str"
  THEN Obj(FromEntries([i \in DOMAIN SplitTrim(x.v) |-> Ent(SplitTrim(x.v)[i], EmptyStr)]))
  ELSE x

\* a loop body that never overwrites an entry the target already has
MergeToolEntry_KeepBase(result, e) ==
  IF HasKey(result, e.k) THEN result ELSE Put(result, e.k, e.v)

\* a loop body without the deep merge: the source's entry always replaces
MergeToolEntry_Replace(result, e) == Put(result, e.k, e.v)

\* lines 169-179: one iteration of the loop over Object.entries(sourceObj)
MergeToolEntry(result, e) ==
  IF /\ HasKey(result, e.k)
     /\ TypeOf(Get(Obj(result), e.k)) = "object"
     /\ TypeOf(e.v) = "object"
  THEN Put(result, e.k, Obj(Spread2(Get(Obj(result), e.k), e.v)))
  ELSE Put(result, e.k, e.v)

RECURSIVE MergeToolEntries(_, _)
MergeToolEntries(result, es) ==
  IF es = << >> THEN result
  ELSE MergeToolEntries(MergeToolEntry(result, Head(es)), Tail(es))

\* lines 145-152: both sides strings
MergeToolStrings(a, b) ==
  Str(Join(Dedupe(SplitTrim(a) \o SplitTrim(b), {}), <<Comma, Blank>>))

mergeTools(targetTools, sourceTools) ==
  IF ~Truthy(targetTools) /\ ~Truthy(sourceTools) THEN Undef
  ELSE IF ~Truthy(targetTools) THEN sourceTools
  ELSE IF ~Truthy(sourceTools) THEN targetTools
  ELSE IF targetTools.t = "str" /\ sourceTools.t = "str"
  THEN MergeToolStrings(targetTools.v, sourceTools.v)
  ELSE Obj(MergeToolEntries(PutAll(<< >>, Entries(ToolsAsObject(targetTools))),
                            Entries(ToolsAsObject(sourceTools))))

(***************************************************************************)
(* mergeConfigs (config.ts 104-124)                                        *)
(***************************************************************************)
KTools == <<"tools">>

\* a merge that lets the overlay's tools replace the base's like any other field
MergeConfigEntry_ToolsReplaced(target, e) ==
  IF Truthy(Get(Obj(target), e.k))
  THEN Put(target, e.k, Obj(Spread2(Get(Obj(target), e.k), e.v)))
  ELSE Put(target, e.k, e.v)

\* a merge with the spreads swapped: the base's fields win
MergeConfigEntry_BaseWins(target, e) ==
  IF Truthy(Get(Obj(target), e.k))
  THEN Put(target, e.k,
           Obj(Put(Spread2(e.v, Get(Obj(target), e.k)), KTools,
                   mergeTools(Get(Get(Obj(target), e.k), KTools), Get(e.v, KTools)))))
  ELSE Put(target, e.k, e.v)

\* lines 109-120: one iteration of the forEach over Object.entries(source)
MergeConfigEntry(target, e) ==
  IF Truthy(Get(Obj(target), e.k))
  THEN Put(target, e.k,
           Obj(Put(Spread2(Get(Obj(target), e.k), e.v), KTools,
                   mergeTools(Get(Get(Obj(target), e.k), KTools), Get(e.v, KTools)))))
  ELSE Put(target, e.k, e.v)

RECURSIVE MergeConfigEntries(_, _)
MergeConfigEntries(target, es) ==
  IF es = << >> THEN target
  ELSE MergeConfigEntries(MergeConfigEntry(target, Head(es)), Tail(es))

\* a merge that builds and returns a new object and leaves its target alone
mergeConfigs_Copy(h, target, source) ==
  [heap |-> Append(h, Obj(MergeConfigEntries(h[target].v, Entries(h[source])))),
   ret |-> Len(h) + 1]

\* mergeConfigs on a heap of configuration objects: the object at reference
\* `target` is updated in place and `target` is the reference returned
mergeConfigs(h, target, source) ==
  [heap |-> [h EXCEPT ![target] = Obj(MergeConfigEntries(h[target].v, Entries(h[source])))],
   ret |-> target]

(***************************************************************************)
(* formatToolsList (utils.ts 37-79)                                        *)
(***************************************************************************)
KName == <<"name">>
KDescription == <<"description">>
KPrompt == <<"prompt">>
KOptional == <<"optional">>

\* a || b
OrElse(a, b) == IF Truthy(a) THEN a ELSE b

\* a list item that keeps only the description of a record
ToolItemOf_DescriptionOnly(e) ==
  Obj(<<Ent(KName, Str(e.k)),
        Ent(KDescription, IF e.v.t = "str" THEN e.v
                          ELSE OrElse(Get(e.v, KDescription), EmptyStr))>>)

\* lines 60-75: the list item of one property of a tools mapping
ToolItemOf(e) ==
  IF e.v.t = "str"
  THEN Obj(<<Ent(KName, Str(e.k)), Ent(KDescription, e.v)>>)
  ELSE IF e.v.t = "obj"
  THEN Obj(<<Ent(KName, Str(e.k)),
             Ent(KDescription, OrElse(Get(e.v, KDescription), EmptyStr)),
             Ent(KPrompt, OrElse(Get(e.v, KPrompt), EmptyStr)),
             Ent(KOptional, OrElse(Get(e.v, KOptional), Bool(FALSE)))>>)
  ELSE Obj(<<Ent(KName, Str(e.k)), Ent(KDescription, EmptyStr)>>)

\* a normalization that does not trim the pieces of a string
formatToolsList_Untrimmed(tools) ==
  IF tools.t = "str"
  THEN [i \in DOMAIN Split(tools.v) |->
          Obj(<<Ent(KName, Str(Split(tools.v)[i])), Ent(KDescription, EmptyStr)>>)]
  ELSE IF tools.t = "obj"
  THEN [i \in DOMAIN tools.v |->
          Obj(<<Ent(KName, Str(tools.v[i].k)), Ent(KDescription, EmptyStr)>>)]
  ELSE << >>

formatToolsList(tools) ==
  IF tools.t \in {"undef", "null"} THEN << >>
  ELSE IF tools.t = "str"
  THEN IF Trim(tools.v) = << >>
       THEN <<Obj(<<Ent(KName, EmptyStr), Ent(KDescription, EmptyStr)>>)>>
       ELSE [i \in DOMAIN Split(tools.v) |->
               Obj(<<Ent(KName, Str(Trim(Split(tools.v)[i]))), Ent(KDescription, EmptyStr)>>)]
  ELSE IF tools.t = "obj"
  THEN [i \in DOMAIN tools.v |-> ToolItemOf(tools.v[i])]
  ELSE << >>

\* the tool names a tools reference refers to, as formatToolsList lists them
ToolNames(tools) ==
  {Get(formatToolsList(tools)[i], KName).v : i \in DOMAIN formatToolsList(tools)}

(***************************************************************************)
(* Declaration sources folded by the loaders                               *)
(***************************************************************************)
KT == <<"t">>
KU == <<"u">>
KA == <<"a">>
KB == <<"b">>
KDisabled == <<"disabled">>
KToolMode == <<"toolMode">>
ScalarFields == {KPrompt, KDescription, KDisabled, KToolMode}

\* the scalar fields of a declaration, in the order the document gives them
ScalarParts ==
  { << >>,
    <<Ent(KPrompt, Str(<<"p1">>)), Ent(KDisabled, Bool(TRUE))>>,
    <<Ent(KDescription, Str(<<"d1">>)), Ent(KPrompt, Str(<<"p2">>))>>,
    <<Ent(KToolMode, Str(<<"sequential">>)), Ent(KDisabled, Bool(FALSE))>> }

ToolsDescA == Obj(<<Ent(KA, Str(<<"desc-a">>))>>)
ToolsDescA2 == Obj(<<Ent(KA, Str(<<"desc-a2">>)), Ent(KOptional, Bool(TRUE))>>)
ToolsRecA2 ==
  Obj(<<Ent(KA, Obj(<<Ent(KDescription, Str(<<"desc-a2">>)), Ent(KOptional, Bool(TRUE))>>))>>)

\* the tools field of a declaration: absent, a string or a mapping
FoldTools ==
  { Undef,
    EmptyStr,
    Str(<<"a">>),
    Str(<<"b", Comma, Blank, "a">>),
    ToolsDescA,
    ToolsDescA2,
    ToolsRecA2,
    Obj(<<Ent(KA, Obj(<<Ent(KDescription, Str(<<"d">>)), Ent(KPrompt, Str(<<"p">>))>>))>>),
    Obj(<<Ent(KB, Obj(<<Ent(KOptional, Bool(TRUE))>>))>>) }

Decl(scalars, tools) ==
  Obj(IF tools = Undef THEN scalars ELSE Append(scalars, Ent(KTools, tools)))

Decls == {Decl(sc, tl) : sc \in ScalarParts, tl \in FoldTools}

SmallDecls == {Decl(<<Ent(KPrompt, Str(<<"p3">>))>>, Undef), Decl(<< >>, Str(<<"b">>))}

\* the configuration objects a source document can parse to
Sources ==
  {Obj(<< >>)}
    \cup {Obj(<<Ent(KT, d)>>) : d \in Decls}
    \cup {Obj(<<Ent(KU, d)>>) : d \in SmallDecls}
    \cup {Obj(<<Ent(KU, e), Ent(KT, d)>>) : e \in SmallDecls, d \in SmallDecls}

(***************************************************************************)
(* The fold of the loaders (config.ts 243-269, 331-356, 420-445):          *)
(* const mergedConfig = {}; for each source: mergeConfigs(mergedConfig, s) *)
(***************************************************************************)
AccRef == 1
NoCall == [target |-> 0, source |-> 0]

InitTools ==
  /\ mtTarget = Undef /\ mtSource = Undef /\ mtOut = Undef /\ mtRev = Undef
  /\ mtPc = "idle"

InitSchemaIdle ==
  /\ params = Obj(<< >>) /\ path = << >> /\ wire = Undef
  /\ res = Undef /\ resFull = Undef /\ scPc = "idle"

InitCompileIdle ==
  /\ cpShape = Obj(<< >>) /\ cpValue = Undef /\ cpNode = Undef
  /\ cpVerdict = Undef /\ cpPc = "idle"

InitTemplateIdle ==
  /\ tpTemplate = Undef /\ tpParams = Obj(<< >>) /\ tpOut = Undef /\ tpPc = "idle"

InitFormatIdle ==
  /\ ftBase = << >> /\ ftTools = << >> /\ ftMode = Undef
  /\ ftText = << >> /\ ftPc = "idle"

InitToolsRefIdle ==
  /\ trRef = Undef /\ trAlt = Undef /\ trMode = Undef
  /\ trList = << >> /\ trAltList = << >> /\ trText = << >> /\ trAltText = << >>
  /\ trPc = "idle"

InitStoreIdle ==
  /\ stStore = << >> /\ stRoots = << >> /\ stParsed = << >>
  /\ stBefore = << >> /\ stGot = << >> /\ stPc = "idle"

InitValidateIdle ==
  /\ vcConfig = Undef /\ vcName = << >> /\ vcOut = Undef /\ vcPc = "idle"

InitIncrIdle ==
  /\ irTemplate = << >> /\ irA = Undef /\ irB = Undef
  /\ irFirst = Undef /\ irSecond = Undef /\ irOnce = Undef /\ irPc = "idle"

InitPresetIdle ==
  /\ psNames = << >> /\ psFiles = << >> /\ psOut = Undef /\ psPc = "idle"

InitRestIdle ==
  /\ InitToolsRefIdle
  /\ InitStoreIdle
  /\ InitValidateIdle
  /\ InitIncrIdle
  /\ InitPresetIdle

InitFold ==
  /\ heap = <<Obj(<< >>)>>
  /\ ret = 0
  /\ hist = << >>
  /\ pre = Obj(<< >>)
  /\ call = NoCall
  /\ InitTools
  /\ InitSchemaIdle
  /\ InitCompileIdle
  /\ InitTemplateIdle
  /\ InitFormatIdle
  /\ InitRestIdle

\* one iteration of the loader's loop: the next source is parsed into a fresh
\* object and merged into the accumulator
Fold(src) ==
  /\ Len(hist) < MaxSources
  /\ LET h == Append(heap, src)
         r == mergeConfigs(h, AccRef, Len(h))
     IN /\ heap' = r.heap
        /\ ret' = r.ret
        /\ call' = [target |-> AccRef, source |-> Len(h)]
  /\ pre' = heap[AccRef]
  /\ hist' = Append(hist, src)
  /\ UNCHANGED toolVars
  /\ UNCHANGED schemaVars
  /\ UNCHANGED <<compileVars, templateVars, formatVars>>
  /\ UNCHANGED restVars

NextFold == \E src \in Sources : Fold(src)

Spec == InitFold /\ [][NextFold]_vars

acc == heap[AccRef]

src == IF hist = << >> THEN Obj(<< >>) ELSE hist[Len(hist)]

\* the fold of a sequence of sources into a fresh empty accumulator
RECURSIVE FoldInto(_, _)
FoldInto(target, ss) ==
  IF ss = << >> THEN target
  ELSE FoldInto(MergeConfigEntries(target, Entries(Head(ss))), Tail(ss))

FoldAll(ss) == Obj(FoldInto(<< >>, ss))

(***************************************************************************)
(* Claims about mergeConfigs and the fold                                  *)
(***************************************************************************)
\* C1: after mergeConfigs(base, overlay), for a key present in both sets the
\* merged declaration has every field the overlay declaration defines with the
\* overlay's value, every field only the base declaration defines with the
\* base's value, and its tools field is mergeTools(base.tools, overlay.tools).
C1_SharedKeyMerge ==
  call # NoCall =>
    \A k \in Keys(pre) \cap Keys(src) :
      LET b == Get(pre, k)
          o == Get(src, k)
          m == Get(acc, k)
      IN /\ Keys(m) = Keys(b) \cup Keys(o) \cup {KTools}
         /\ \A f \in Keys(m) \ {KTools} :
              Get(m, f) = IF f \in Keys(o) THEN Get(o, f) ELSE Get(b, f)
         /\ Get(m, KTools) = mergeTools(Get(b, KTools), Get(o, KTools))

\* a merge in which, for one key, the overlay overrides a base field, the base
\* keeps a field the overlay lacks, and the tools are merged and not replaced
C1_Witness ==
  /\ call # NoCall
  /\ \E k \in Keys(pre) \cap Keys(src) :
       LET b == Get(pre, k)
           o == Get(src, k)
           m == Get(acc, k)
       IN /\ \E f \in ScalarFields : f \in Keys(b) /\ f \in Keys(o) /\ Get(b, f) # Get(o, f)
          /\ \E f \in ScalarFields : f \in Keys(b) /\ f \notin Keys(o) /\ Get(m, f) = Get(b, f)
          /\ Truthy(Get(b, KTools)) /\ Truthy(Get(o, KTools))
          /\ Get(m, KTools) # Get(o, KTools)

\* C2: mergeConfigs returns the reference of its target, updated in place (no
\* other object is created); the target's key set is keys(base) union
\* keys(overlay), a key only in the overlay maps to the overlay's declaration
\* and a key only in base keeps its declaration.
C2_InPlaceKeyUnion ==
  call # NoCall =>
    /\ ret = call.target
    /\ Len(heap) = Len(hist) + 1
    /\ Keys(heap[ret]) = Keys(pre) \cup Keys(src)
    /\ \A k \in Keys(src) \ Keys(pre) : Get(heap[ret], k) = Get(src, k)
    /\ \A k \in Keys(pre) \ Keys(src) : Get(heap[ret], k) = Get(pre, k)

\* a merge that inserts a key of the overlay next to a key only base has
C2_Witness ==
  /\ call # NoCall
  /\ Keys(src) \ Keys(pre) # {}
  /\ Keys(pre) \ Keys(src) # {}
  /\ \E k \in Keys(pre) \ Keys(src) : Truthy(Get(Get(pre, k), KPrompt))

\* the value the last source of ss defining field f under key k gives it
RECURSIVE LastDefined(_, _, _)
LastDefined(ss, k, f) ==
  IF ss = << >> THEN Undef
  ELSE IF f \in Keys(Get(ss[Len(ss)], k)) THEN Get(Get(ss[Len(ss)], k), f)
  ELSE LastDefined(SubSeq(ss, 1, Len(ss) - 1), k, f)

\* C3: after folding the sources of hist in order into an empty accumulator,
\* every field other than tools of every key has the value given by the last
\* source that defines that field for that key (none when no source does).
C3_LastWriterWins ==
  \A k \in {KT, KU} : \A f \in ScalarFields :
    Get(Get(acc, k), f) = LastDefined(hist, k, f)

\* two sources defining the same field differently were folded, the later one
\* won, and folding them in the other order gives a different result
C3_Witness ==
  /\ Len(hist) = 2
  /\ \E f \in ScalarFields :
       /\ f \in Keys(Get(hist[1], KT)) /\ f \in Keys(Get(hist[2], KT))
       /\ Get(Get(hist[1], KT), f) # Get(Get(hist[2], KT), f)
       /\ Get(Get(acc, KT), f) = Get(Get(hist[2], KT), f)
       /\ Get(Get(FoldAll(<<hist[2], hist[1]>>), KT), f) = Get(Get(hist[1], KT), f)
  /\ FoldAll(<<hist[2], hist[1]>>) # acc

\* C4: after any fold, for every key, the tool names of the accumulator's tools
\* reference contain every tool name any folded source referenced under it.
C4_ToolRefsCumulative ==
  \A i \in DOMAIN hist : \A k \in Keys(hist[i]) :
    ToolNames(Get(Get(hist[i], k), KTools)) \subseteq ToolNames(Get(Get(acc, k), KTools))

\* C8 as stated: the scenario yields {t:{tools:{a:{description:"desc-a2",
\* optional:true}}}}.
C8_ScenarioAsStated ==
  hist = <<Obj(<<Ent(KT, Decl(<< >>, ToolsDescA))>>), Obj(<<Ent(KT, Decl(<< >>, ToolsDescA2))>>)>>
    => acc = Obj(<<Ent(KT, Decl(<< >>, ToolsRecA2))>>)

\* C8 amended: merging base {t:{tools:{a:"desc-a"}}} with overlay
\* {t:{tools:{a:"desc-a2", optional:true}}} yields {t:{tools:{a:"desc-a2",
\* optional:true}}}: the overlay's string replaces the base's string for a and
\* optional is added as a second entry of the mapping; with the overlay
\* {t:{tools:{a:{description:"desc-a2", optional:true}}}} the result is
\* {t:{tools:{a:{description:"desc-a2", optional:true}}}}, the overlay's record.
C8_Scenario ==
  /\ hist = <<Obj(<<Ent(KT, Decl(<< >>, ToolsDescA))>>), Obj(<<Ent(KT, Decl(<< >>, ToolsDescA2))>>)>>
       => acc = Obj(<<Ent(KT, Decl(<< >>, ToolsDescA2))>>)
  /\ hist = <<Obj(<<Ent(KT, Decl(<< >>, ToolsDescA))>>), Obj(<<Ent(KT, Decl(<< >>, ToolsRecA2))>>)>>
       => acc = Obj(<<Ent(KT, Decl(<< >>, ToolsRecA2))>>)

\* the scenario's two sources have been folded
C8_Witness ==
  hist = <<Obj(<<Ent(KT, Decl(<< >>, ToolsDescA))>>), Obj(<<Ent(KT, Decl(<< >>, ToolsDescA2))>>)>>

(***************************************************************************)
(* mergeTools called on its own                                            *)
(***************************************************************************)
KC == <<"c">>
Alphabet == {"a", "b", "c", Comma, Blank}

\* every string of at most MaxStrLen atoms
Strings == UNION {[1..n -> Alphabet] : n \in 0..MaxStrLen}

RecDP == Obj(<<Ent(KDescription, Str(<<"d">>)), Ent(KPrompt, Str(<<"p">>))>>)
RecPO == Obj(<<Ent(KPrompt, Str(<<"p2">>)), Ent(KOptional, Bool(TRUE))>>)

\* tools mappings: name -> description string or ToolConfig record
ToolMaps ==
  { Obj(<< >>),
    ToolsDescA,
    Obj(<<Ent(KA, RecDP)>>),
    Obj(<<Ent(KA, RecPO)>>),
    Obj(<<Ent(KB, RecPO), Ent(KA, Str(<<"x">>))>>),
    Obj(<<Ent(KC, RecDP), Ent(KB, RecDP)>>),
    Obj(<<Ent(<< >>, Str(<<"e">>))>>) }

\* the values of the tools field: absent, a string, a mapping
ToolsIn == {Undef} \cup {Str(s) : s \in Strings} \cup ToolMaps

InitFoldIdle ==
  /\ heap = <<Obj(<< >>)>>
  /\ ret = 0
  /\ hist = << >>
  /\ pre = Obj(<< >>)
  /\ call = NoCall

InitMergeTools ==
  /\ mtTarget \in ToolsIn
  /\ mtSource \in ToolsIn
  /\ mtOut = Undef
  /\ mtRev = Undef
  /\ mtPc = "ready"
  /\ InitFoldIdle
  /\ InitSchemaIdle
  /\ InitCompileIdle
  /\ InitTemplateIdle
  /\ InitFormatIdle
  /\ InitRestIdle

\* mergeTools(target, source), and the same call with the sides exchanged
CallMergeTools ==
  /\ mtPc = "ready"
  /\ mtOut' = mergeTools(mtTarget, mtSource)
  /\ mtRev' = mergeTools(mtSource, mtTarget)
  /\ mtPc' = "done"
  /\ UNCHANGED <<mtTarget, mtSource>>
  /\ UNCHANGED foldVars
  /\ UNCHANGED schemaVars
  /\ UNCHANGED <<compileVars, templateVars, formatVars>>
  /\ UNCHANGED restVars

NextMergeTools == CallMergeTools

SpecMergeTools == InitMergeTools /\ [][NextMergeTools]_vars

(***************************************************************************)
(* Claims about mergeTools                                                 *)
(***************************************************************************)
Range(f) == {f[i] : i \in DOMAIN f}

\* the trimmed names a comma-separated string lists
StringNames(s) == Range(SplitTrim(s))

\* the names a side contributes: its keys, or its trimmed names
SideNames(x) ==
  IF x.t = "str" THEN StringNames(x.v) ELSE IF x.t = "obj" THEN Keys(x) ELSE {}

NoDuplicates(xs) == \A i, j \in DOMAIN xs : xs[i] = xs[j] => i = j

\* s is the comma+space-joined string of a duplicate-free list of names
\* carrying exactly the names ns
JoinedUnion(s, ns) ==
  /\ s.t = "str"
  /\ StringNames(s.v) = ns
  /\ NoDuplicates(SplitTrim(s.v))
  /\ s.v = Join(SplitTrim(s.v), <<Comma, Blank>>)

\* C5: mergeTools on two comma-separated strings returns the comma+space-joined
\* string of the de-duplicated union of the trimmed names of both inputs, and
\* the set of names is the same with the arguments exchanged.
C5_StringUnion ==
  (mtPc = "done" /\ mtTarget.t = "str" /\ mtSource.t = "str") =>
    /\ JoinedUnion(mtOut, StringNames(mtTarget.v) \cup StringNames(mtSource.v))
    /\ JoinedUnion(mtRev, StringNames(mtTarget.v) \cup StringNames(mtSource.v))

\* mergeTools on two non-empty strings does what C5 says ("a,b" with "b,c"
\* gives the names a, b, c in both orders)
C5_NonEmptyStrings ==
  (mtPc = "done" /\ mtTarget.t = "str" /\ mtSource.t = "str"
     /\ mtTarget.v # << >> /\ mtSource.v # << >>) =>
    /\ JoinedUnion(mtOut, StringNames(mtTarget.v) \cup StringNames(mtSource.v))
    /\ JoinedUnion(mtRev, StringNames(mtTarget.v) \cup StringNames(mtSource.v))

C5_Example ==
  /\ mtPc = "done"
  /\ mtTarget = Str(<<"a", Comma, "b">>) /\ mtSource = Str(<<"b", Comma, "c">>)
  /\ mtOut = Str(<<"a", Comma, Blank, "b", Comma, Blank, "c">>)
  /\ StringNames(mtRev.v) = {<<"a">>, <<"b">>, <<"c">>}

\* C9: when both tools references are absent the result is absent; when
\* exactly one is present the result is that one, unchanged.
C9_AbsenceCases ==
  mtPc = "done" =>
    /\ (mtTarget = Undef /\ mtSource = Undef) => mtOut = Undef
    /\ (mtTarget # Undef /\ mtSource = Undef) => mtOut = mtTarget
    /\ (mtTarget = Undef /\ mtSource # Undef) => mtOut = mtSource

\* the fields of a tool entry: a plain string is the description and nothing
\* else, a record has its own properties
EntryField(x, f) ==
  IF x.t = "str" THEN (IF f = KDescription THEN x ELSE Undef) ELSE Get(x, f)

EntryDefines(x, f) ==
  IF x.t = "str" THEN f = KDescription ELSE f \in Keys(x)

EntryFields == {KDescription, KPrompt, KOptional}

NormalRecord ==
  Obj(<<Ent(KDescription, EmptyStr), Ent(KPrompt, EmptyStr), Ent(KOptional, Bool(FALSE))>>)

OneStringOneMapping ==
  \/ mtTarget.t = "str" /\ mtSource.t = "obj"
  \/ mtTarget.t = "obj" /\ mtSource.t = "str"

StringSide == IF mtTarget.t = "str" THEN mtTarget ELSE mtSource
MappingSide == IF mtTarget.t = "str" THEN mtSource ELSE mtTarget

Arr(xs) == [t |-> "arr", v |-> xs]
S(a) == Str(<<a>>)

KType == <<"type">>
KRequired == <<"required">>
KDefault == <<"default">>
KEnum == <<"enum">>
KItems == <<"items">>
KProperties == <<"properties">>
KAdditional == <<"additionalProperties">>

\* the names of the entries es whose shape has a truthy required flag, in order
\* every declared name, required or not
RequiredNames_All(es) == [i \in DOMAIN es |-> Str(es[i].k)]

RECURSIVE RequiredNames(_)
RequiredNames(es) ==
  IF es = << >> THEN << >>
  ELSE (IF Truthy(Get(Head(es).v, KRequired)) THEN <<Str(Head(es).k)>> ELSE << >>)
         \o RequiredNames(Tail(es))

(***************************************************************************)
(* convertParametersToJsonSchema / convertParameterToJsonSchema            *)
(* (config.ts 624-711)                                                     *)
(***************************************************************************)
RECURSIVE convertParameterToJsonSchema(_)
RECURSIVE convertParametersToJsonSchema(_)

\* lines 656-700: the switch on param.type (no default case)
JsonSchemaOfType(param) ==
  LET ty == Get(param, KType)
  IN CASE ty = S("string") -> <<Ent(KType, S("string"))>>
       [] ty = S("number") -> <<Ent(KType, S("number"))>>
       [] ty = S("boolean") -> <<Ent(KType, S("boolean"))>>
       [] ty = S("array") ->
            <<Ent(KType, S("array")),
              Ent(KItems, IF Truthy(Get(param, KItems))
                          THEN convertParameterToJsonSchema(Get(param, KItems))
                          ELSE Obj(<<Ent(KType, S("string"))>>))>>
       [] ty = S("object") ->
            IF Truthy(Get(param, KProperties))
            THEN LET nested == convertParametersToJsonSchema(Get(param, KProperties))
                 IN <<Ent(KType, S("object")), Ent(KProperties, Get(nested, KProperties))>>
                      \o (IF Truthy(Get(nested, KRequired)) /\ Len(Get(nested, KRequired).v) > 0
                          THEN <<Ent(KRequired, Get(nested, KRequired))>> ELSE << >>)
            ELSE <<Ent(KType, S("object")), Ent(KAdditional, Bool(TRUE))>>
       [] ty = S("enum") ->
            IF Truthy(Get(param, KEnum)) /\ Len(Get(param, KEnum).v) > 0
            THEN <<Ent(KType, IF TypeOf(Get(param, KEnum).v[1]) = "number"
                              THEN S("number") ELSE S("string")),
                   Ent(KEnum, Get(param, KEnum))>>
            ELSE <<Ent(KType, S("string")), Ent(KEnum, Arr(<< >>))>>
       [] OTHER -> << >>

\* a compiler that copies a default only when it is truthy
convertParameterToJsonSchema_TruthyDefault(param) ==
  Obj(JsonSchemaOfType(param)
        \o (IF Truthy(Get(param, KDescription))
            THEN <<Ent(KDescription, Get(param, KDescription))>> ELSE << >>)
        \o (IF Truthy(Get(param, KDefault))
            THEN <<Ent(KDefault, Get(param, KDefault))>> ELSE << >>))

convertParameterToJsonSchema(param) ==
  Obj(JsonSchemaOfType(param)
        \o (IF Truthy(Get(param, KDescription))
            THEN <<Ent(KDescription, Get(param, KDescription))>> ELSE << >>)
        \o (IF Get(param, KDefault) # Undef
            THEN <<Ent(KDefault, Get(param, KDefault))>> ELSE << >>))

convertParametersToJsonSchema(parameters) ==
  LET es == Entries(parameters)
  IN Obj(<<Ent(KType, S("object")),
           Ent(KProperties,
               Obj([i \in DOMAIN es |-> Ent(es[i].k, convertParameterToJsonSchema(es[i].v))]))>>
           \o (IF Len(RequiredNames(es)) > 0
               THEN <<Ent(KRequired, Arr(RequiredNames(es)))>> ELSE << >>))

(***************************************************************************)
(* convertParametersToZodSchema / convertParameterToZodSchema              *)
(* (config.ts 718-815).  A validator is the tree of zod constructors the   *)
(* code builds; ZParse is zod's safeParse on that tree.                    *)
(***************************************************************************)
ZString == [z |-> "string"]
ZNumber == [z |-> "number"]
ZBoolean == [z |-> "boolean"]
ZRecordUnknown == [z |-> "record"]
ZArray(item) == [z |-> "array", item |-> item]
ZObject(shape) == [z |-> "object", shape |-> shape]
ZEnum(values) == [z |-> "enum", values |-> values]
ZLiteral(v) == [z |-> "literal", val |-> v]
ZUnion(options) == [z |-> "union", options |-> options]
ZOptional(inner) == [z |-> "optional", inner |-> inner]
ZDefault(inner, d) == [z |-> "default", inner |-> inner, val |-> d]
ZDescribe(inner, d) == [z |-> "described", inner |-> inner, desc |-> d]

RECURSIVE convertParameterToZodSchema(_)
RECURSIVE convertParametersToZodSchema(_)

\* a switch whose arrays hold strings whatever item shape is declared
ZodOfType_ArrayOfStrings(param) ==
  IF Get(param, KType) = S("array") THEN ZArray(ZString) ELSE ZString

\* a switch whose empty enum accepts no value at all
ZodOfType_EmptyEnumNever(param) ==
  IF Get(param, KType) = S("enum") THEN ZEnum(<< >>) ELSE ZString

\* a switch that builds the string-kind enum validator whatever the values are
ZodOfType_EnumOfStrings(param) ==
  IF Get(param, KType) = S("enum") /\ Truthy(Get(param, KEnum)) /\ Len(Get(param, KEnum).v) > 0
  THEN ZEnum(Get(param, KEnum).v)
  ELSE ZString

\* lines 747-802: the switch on param.type
ZodOfType(param) ==
  LET ty == Get(param, KType)
  IN CASE ty = S("string") -> ZString
       [] ty = S("number") -> ZNumber
       [] ty = S("boolean") -> ZBoolean
       [] ty = S("array") ->
            IF Truthy(Get(param, KItems))
            THEN ZArray(convertParameterToZodSchema(Get(param, KItems)))
            ELSE ZArray(ZString)
       [] ty = S("object") ->
            IF Truthy(Get(param, KProperties))
            THEN ZObject(convertParametersToZodSchema(Get(param, KProperties)))
            ELSE ZRecordUnknown
       [] ty = S("enum") ->
            IF Truthy(Get(param, KEnum)) /\ Len(Get(param, KEnum).v) > 0
            THEN IF TypeOf(Get(param, KEnum).v[1]) = "number"
                 THEN ZUnion([i \in DOMAIN Get(param, KEnum).v |-> ZLiteral(Get(param, KEnum).v[i])])
                 ELSE ZEnum(Get(param, KEnum).v)
            ELSE ZEnum(<<EmptyStr>>)
       [] OTHER -> ZString

\* lines 804-812: describe, then default
ZodWithDefault(param, schema) ==
  IF Get(param, KDefault) # Undef THEN ZDefault(schema, Get(param, KDefault)) ELSE schema

convertParameterToZodSchema(param) ==
  ZodWithDefault(param,
    IF Truthy(Get(param, KDescription))
    THEN ZDescribe(ZodOfType(param), Get(param, KDescription))
    ELSE ZodOfType(param))

\* a validator map that wraps every property in optional()
convertParametersToZodSchema_AllOptional(parameters) ==
  LET es == Entries(parameters)
  IN [i \in DOMAIN es |-> Ent(es[i].k, ZOptional(convertParameterToZodSchema(es[i].v)))]

\* lines 723-732: optional() unless the parameter is required
convertParametersToZodSchema(parameters) ==
  LET es == Entries(parameters)
  IN [i \in DOMAIN es |->
        Ent(es[i].k, IF ~Truthy(Get(es[i].v, KRequired))
                     THEN ZOptional(convertParameterToZodSchema(es[i].v))
                     ELSE convertParameterToZodSchema(es[i].v))]

Ok(v) == [ok |-> TRUE, out |-> v]
Fail == [ok |-> FALSE, out |-> Undef]

RECURSIVE ZParse(_, _)
RECURSIVE ZParseElems(_, _)
RECURSIVE ZParseShape(_, _)
RECURSIVE ZParseUnion(_, _)

\* z.array: every element, in order
ZParseElems(item, xs) ==
  IF xs = << >> THEN Ok(<< >>)
  ELSE LET h == ZParse(item, Head(xs))
           r == ZParseElems(item, Tail(xs))
       IN IF h.ok /\ r.ok THEN Ok(<<h.out>> \o r.out) ELSE Fail

\* z.object: the declared keys, in order; other keys are stripped; a key is set
\* in the output when the input has it or its parsed value is not undefined
ZParseShape(shape, x) ==
  IF shape = << >> THEN Ok(<< >>)
  ELSE LET h == ZParse(Head(shape).v, Get(x, Head(shape).k))
           r == ZParseShape(Tail(shape), x)
       IN IF h.ok /\ r.ok
          THEN Ok((IF h.out # Undef \/ Head(shape).k \in Keys(x)
                   THEN <<Ent(Head(shape).k, h.out)>> ELSE << >>) \o r.out)
          ELSE Fail

\* z.union: the first option that accepts
ZParseUnion(options, x) ==
  IF options = << >> THEN Fail
  ELSE IF ZParse(Head(options), x).ok THEN ZParse(Head(options), x)
  ELSE ZParseUnion(Tail(options), x)

ZParse(node, x) ==
  CASE node.z = "string" -> IF x.t = "str" THEN Ok(x) ELSE Fail
    [] node.z = "number" -> IF x.t = "num" THEN Ok(x) ELSE Fail
    [] node.z = "boolean" -> IF x.t = "bool" THEN Ok(x) ELSE Fail
    [] node.z = "record" -> IF x.t = "obj" THEN Ok(x) ELSE Fail
    [] node.z = "array" ->
         IF x.t = "arr"
         THEN LET r == ZParseElems(node.item, x.v) IN IF r.ok THEN Ok(Arr(r.out)) ELSE Fail
         ELSE Fail
    [] node.z = "object" ->
         IF x.t = "obj"
         THEN LET r == ZParseShape(node.shape, x) IN IF r.ok THEN Ok(Obj(r.out)) ELSE Fail
         ELSE Fail
    [] node.z = "enum" ->
         IF x.t = "str" /\ \E i \in DOMAIN node.values : node.values[i] = x THEN Ok(x) ELSE Fail
    [] node.z = "literal" -> IF x = node.val THEN Ok(x) ELSE Fail
    [] node.z = "union" -> ZParseUnion(node.options, x)
    [] node.z = "optional" -> IF x = Undef THEN Ok(Undef) ELSE ZParse(node.inner, x)
    [] node.z = "default" -> ZParse(node.inner, IF x = Undef THEN node.val ELSE x)
    [] node.z = "described" -> ZParse(node.inner, x)

\* z.object(convertParametersToZodSchema(parameters)).safeParse(input)
validate(parameters, input) == ZParse(ZObject(convertParametersToZodSchema(parameters)), input)

(***************************************************************************)
(* Compiling a parameter map and validating an input against it            *)
(***************************************************************************)
KLevel == <<"level">>
KQ == <<"q">>
\* the step of a path that enters the first element of an array
AtElem == <<"[0]">>

Shape(ty, more) == Obj(<<Ent(KType, S(ty))>> \o more)

LeafStrReq == Shape("string", <<Ent(KRequired, Bool(TRUE))>>)
LeafNumOpt == Shape("number", <<Ent(KDescription, S("n"))>>)
LeafLevel == Shape("enum", <<Ent(KEnum, Arr(<<Num(1), Num(2), Num(3)>>)), Ent(KRequired, Bool(TRUE))>>)
LeafNumReqDefault == Shape("number", <<Ent(KRequired, Bool(TRUE)), Ent(KDefault, Num(5))>>)
LeafBoolDefault == Shape("boolean", <<Ent(KDefault, Bool(TRUE))>>)
LeafStrReqBadDefault == Shape("string", <<Ent(KRequired, Bool(TRUE)), Ent(KDefault, Num(7))>>)
LeafEnumNotReq == Shape("enum", <<Ent(KEnum, Arr(<<S("x"), S("y")>>)), Ent(KRequired, Bool(FALSE))>>)

Leaves ==
  {LeafStrReq, LeafNumOpt, LeafLevel, LeafNumReqDefault, LeafBoolDefault,
   LeafStrReqBadDefault, LeafEnumNotReq}

ObjectShape(req, props) ==
  Shape("object", (IF req THEN <<Ent(KRequired, Bool(TRUE))>> ELSE << >>)
                    \o <<Ent(KProperties, Obj(props))>>)

ArrayShape(item) == Shape("array", <<Ent(KItems, item)>>)

\* the shapes nested at most d deep
RECURSIVE Shapes(_)
Shapes(d) ==
  IF d = 0 THEN Leaves
  ELSE Leaves
         \cup {ObjectShape(r, <<Ent(KA, s)>>) : r \in BOOLEAN, s \in Shapes(d - 1)}
         \cup {ObjectShape(r, <<Ent(KA, s), Ent(KB, l)>>) :
                 r \in BOOLEAN, s \in Shapes(d - 1), l \in {LeafStrReq, LeafNumOpt}}
         \cup {ArrayShape(s) : s \in Shapes(d - 1)}

\* the parameter maps of a declaration
ParameterMaps ==
  {Obj(<<Ent(KLevel, s)>>) : s \in Shapes(MaxDepth)}
    \cup {Obj(<<Ent(KLevel, s), Ent(KQ, l)>>) : s \in Shapes(MaxDepth), l \in {LeafLevel, LeafNumOpt}}

\* a value the shape accepts
RECURSIVE ValidValue(_)
ValidValue(shape) ==
  LET ty == Get(shape, KType)
  IN CASE ty = S("string") -> S("s")
       [] ty = S("number") -> Num(1)
       [] ty = S("boolean") -> Bool(TRUE)
       [] ty = S("enum") -> Get(shape, KEnum).v[1]
       [] ty = S("array") -> Arr(<<ValidValue(Get(shape, KItems))>>)
       [] ty = S("object") ->
            LET es == Entries(Get(shape, KProperties))
            IN Obj([i \in DOMAIN es |-> Ent(es[i].k, ValidValue(es[i].v))])

\* the input that gives every declared property, at every depth
FullInput(parameters) ==
  LET es == Entries(parameters)
  IN Obj([i \in DOMAIN es |-> Ent(es[i].k, ValidValue(es[i].v))])

\* the paths of the properties declared in a property map, at every depth
RECURSIVE PropPaths(_)
RECURSIVE SubPaths(_)
PropPaths(props) ==
  UNION {{<<Entries(props)[i].k>>}
           \cup {<<Entries(props)[i].k>> \o q : q \in SubPaths(Entries(props)[i].v)} :
         i \in DOMAIN Entries(props)}

SubPaths(shape) ==
  IF Get(shape, KType) = S("object") /\ Truthy(Get(shape, KProperties))
  THEN PropPaths(Get(shape, KProperties))
  ELSE IF Get(shape, KType) = S("array") /\ Truthy(Get(shape, KItems))
  THEN {<<AtElem>> \o q : q \in SubPaths(Get(shape, KItems))}
  ELSE {}

\* the shape declared for the property at path pth of a property map
RECURSIVE ShapeAt(_, _)
ShapeAt(props, pth) ==
  IF Len(pth) = 1 THEN Get(props, pth[1])
  ELSE IF pth[2] = AtElem
  THEN ShapeAt(Obj(<<Ent(AtElem, Get(Get(props, pth[1]), KItems))>>), Tail(pth))
  ELSE ShapeAt(Get(Get(props, pth[1]), KProperties), Tail(pth))

Without(es, k) == SelectSeq(es, LAMBDA e : e.k # k)

\* value x with the property at pth set to v, or removed when v is undefined
RECURSIVE Update(_, _, _)
Update(x, pth, v) ==
  IF x.t = "arr" THEN Arr(<<Update(x.v[1], Tail(pth), v)>>)
  ELSE IF Len(pth) = 1
  THEN IF v = Undef THEN Obj(Without(x.v, pth[1])) ELSE Obj(Put(x.v, pth[1], v))
  ELSE Obj(Put(x.v, pth[1], Update(Get(x, pth[1]), Tail(pth), v)))

input == Update(FullInput(params), path, Undef)

InitSchema ==
  /\ params \in ParameterMaps
  /\ path \in PropPaths(params)
  /\ wire = Undef /\ res = Undef /\ resFull = Undef
  /\ scPc = "declared"
  /\ InitFoldIdle
  /\ InitTools
  /\ InitCompileIdle
  /\ InitTemplateIdle
  /\ InitFormatIdle
  /\ InitRestIdle

\* the wire schema of the declaration is derived
CompileWire ==
  /\ scPc = "declared"
  /\ wire' = convertParametersToJsonSchema(params)
  /\ scPc' = "compiled"
  /\ UNCHANGED <<params, path, res, resFull>>
  /\ UNCHANGED foldVars
  /\ UNCHANGED toolVars
  /\ UNCHANGED <<compileVars, templateVars, formatVars>>
  /\ UNCHANGED restVars

\* a call arrives whose arguments omit the property at path, and the same call
\* with every property given is validated beside it
ValidateCall ==
  /\ scPc = "compiled"
  /\ res' = validate(params, input)
  /\ resFull' = validate(params, FullInput(params))
  /\ scPc' = "validated"
  /\ UNCHANGED <<params, path, wire>>
  /\ UNCHANGED foldVars
  /\ UNCHANGED toolVars
  /\ UNCHANGED <<compileVars, templateVars, formatVars>>
  /\ UNCHANGED restVars

NextSchema == CompileWire \/ ValidateCall

SpecSchema == InitSchema /\ [][NextSchema]_vars

(***************************************************************************)
(* Required-field propagation                                              *)
(***************************************************************************)
DeclaredRequired(shape) == Get(shape, KRequired) = Bool(TRUE)

WireRequiredList(schema) ==
  IF Get(schema, KRequired) = Undef THEN << >> ELSE Get(schema, KRequired).v

\* the required list of one wire object schema names the properties declared
\* required:true, each once
ExactlyRequired(props, schema) ==
  LET es == Entries(props)
      lst == WireRequiredList(schema)
  IN /\ {lst[i] : i \in DOMAIN lst}
          = {Str(es[i].k) : i \in {j \in DOMAIN es : DeclaredRequired(es[j].v)}}
     /\ \A i, j \in DOMAIN lst : i # j => lst[i] # lst[j]

RECURSIVE WireRequiredIn(_, _)
RECURSIVE WireRequiredUnder(_, _)
WireRequiredIn(props, schema) ==
  /\ ExactlyRequired(props, schema)
  /\ \A i \in DOMAIN Entries(props) :
       WireRequiredUnder(Entries(props)[i].v,
                         Get(Get(schema, KProperties), Entries(props)[i].k))

WireRequiredUnder(shape, node) ==
  IF Get(shape, KType) = S("object") /\ Truthy(Get(shape, KProperties))
  THEN WireRequiredIn(Get(shape, KProperties), node)
  ELSE IF Get(shape, KType) = S("array") /\ Truthy(Get(shape, KItems))
  THEN WireRequiredUnder(Get(shape, KItems), Get(node, KItems))
  ELSE TRUE

\* C10 as stated: at every nesting depth the wire schema's required list is
\* exactly the names of the properties declared required:true, the validator
\* rejects an input that omits a property declared required:true, and accepts
\* an otherwise valid input that omits a property not declared required.
C10_RequiredPropagationAsStated ==
  /\ scPc \in {"compiled", "validated"} => WireRequiredIn(params, wire)
  /\ scPc = "validated" =>
       /\ resFull.ok
       /\ DeclaredRequired(ShapeAt(params, path)) => ~res.ok
       /\ ~DeclaredRequired(ShapeAt(params, path)) => res.ok

\* C10: at every nesting depth the wire schema's required list is exactly the
\* names of the properties declared required:true; the validator rejects an
\* input that omits a property declared required:true without a default,
\* accepts an otherwise valid input that omits a property not declared
\* required, and treats the omission of a required property that carries a
\* default exactly as if the default had been supplied.
C10_RequiredPropagation ==
  /\ scPc \in {"compiled", "validated"} => WireRequiredIn(params, wire)
  /\ scPc = "validated" =>
       LET shape == ShapeAt(params, path)
       IN /\ resFull.ok
          /\ (DeclaredRequired(shape) /\ Get(shape, KDefault) = Undef) => ~res.ok
          /\ ~DeclaredRequired(shape) => res.ok
          /\ (DeclaredRequired(shape) /\ Get(shape, KDefault) # Undef) =>
               res.ok = validate(params,
                                 Update(FullInput(params), path, Get(shape, KDefault))).ok

\* parameters {level: enum [1,2,3], required}: the wire schema requires
\* ["level"] and the input {} is rejected while {level: 1} is accepted
C10_Witness ==
  /\ scPc = "validated"
  /\ params = Obj(<<Ent(KLevel, LeafLevel)>>)
  /\ path = <<KLevel>>
  /\ input = Obj(<< >>)
  /\ Get(wire, KRequired) = Arr(<<Str(KLevel)>>)
  /\ ~res.ok
  /\ resFull.ok

(***************************************************************************)
(* Defaults                                                                *)
(***************************************************************************)
\* the value found at pth in a validated output, undefined when it is not set
RECURSIVE ValueAt(_, _)
ValueAt(x, pth) ==
  IF pth = << >> THEN x
  ELSE IF x.t = "arr" THEN ValueAt(x.v[1], Tail(pth))
  ELSE IF x.t = "obj" THEN ValueAt(Get(x, pth[1]), Tail(pth))
  ELSE Undef

\* the default of the shape is a value its own kind accepts
DefaultFits(shape) == ZParse(ZodOfType(shape), Get(shape, KDefault)).ok

\* C11: for every declared parameter that carries a default (one that fits its
\* declared kind), whether or not it is declared required, validating an input
\* that omits the parameter succeeds and the validated output holds the
\* default value for it.
C11_DefaultApplied ==
  (/\ scPc = "validated"
   /\ Get(ShapeAt(params, path), KDefault) # Undef
   /\ DefaultFits(ShapeAt(params, path)))
    => /\ res.ok
       /\ ValueAt(res.out, path) = Get(ShapeAt(params, path), KDefault)

(***************************************************************************)
(* Compiling one shape with both compilers and validating one value        *)
(***************************************************************************)
EnumOf(values) == Shape("enum", <<Ent(KEnum, Arr(values))>>)

\* an enum shape that declares no values list
EnumMissing == Shape("enum", << >>)

\* a type tag outside the six the compilers switch on
UnknownTag == Shape("integer", << >>)

LeafKinds ==
  {Shape("string", << >>), Shape("number", << >>), Shape("boolean", << >>),
   EnumOf(<<Num(1), Num(2), Num(3)>>), EnumOf(<<S("x"), S("y")>>),
   EnumOf(<<Num(1), S("x")>>), EnumOf(<<S("x"), Num(1)>>),
   EnumOf(<< >>), EnumMissing, UnknownTag}

CoreLeaves ==
  {Shape("string", << >>), Shape("number", << >>),
   Shape("number", <<Ent(KDescription, S("n")), Ent(KDefault, Num(0))>>),
   LeafLevel, EnumOf(<<S("x"), S("y")>>), EnumOf(<< >>), UnknownTag}

ArrayNoItems == Shape("array", << >>)
ObjectNoProperties == Shape("object", << >>)

\* the shapes nested at most d deep, arrays and objects included
RECURSIVE Nest(_)
Nest(d) ==
  IF d = 0 THEN CoreLeaves
  ELSE CoreLeaves
         \cup {ArrayNoItems, ObjectNoProperties, ObjectShape(FALSE, << >>)}
         \cup {ArrayShape(s) : s \in Nest(d - 1)}
         \cup {ObjectShape(FALSE, <<Ent(KA, s)>>) : s \in Nest(d - 1)}
         \cup {ObjectShape(FALSE, <<Ent(KA, s), Ent(KB, LeafStrReq)>>) : s \in Nest(d - 1)}

\* what a declaration may say about description and default
Annotations ==
  {<< >>,
   <<Ent(KDescription, S("d"))>>,
   <<Ent(KDescription, EmptyStr)>>,
   <<Ent(KDefault, Num(0))>>,
   <<Ent(KDefault, EmptyStr)>>,
   <<Ent(KDescription, S("d")), Ent(KDefault, S("x"))>>}

Annotate(s, ann) == Obj(PutAll(s.v, ann))

CompileShapes == {Annotate(s, ann) : s \in LeafKinds \cup Nest(MaxDepth), ann \in Annotations}

\* the values a call may give for one parameter
CallValues ==
  {Undef, Null, EmptyStr, S("s"), S("x"), S("y"), S("1"),
   Num(0), Num(1), Num(2), Num(3), Num(4), Bool(TRUE), Bool(FALSE),
   Arr(<< >>), Arr(<<Num(1), Num(2), Num(3)>>), Arr(<<S("a"), S("b"), S("c")>>),
   Arr(<<Num(1), S("a")>>), Arr(<<Arr(<<S("s")>>)>>), Arr(<<Obj(<<Ent(KA, S("s"))>>)>>),
   Obj(<< >>), Obj(<<Ent(KA, S("s"))>>), Obj(<<Ent(KA, Num(1)), Ent(KB, S("s"))>>),
   Obj(<<Ent(KB, S("s"))>>), Obj(<<Ent(KA, S("x")), Ent(KC, Num(1))>>)}

InitCompile ==
  /\ cpShape \in CompileShapes
  /\ cpValue \in CallValues
  /\ cpNode = Undef /\ cpVerdict = Undef
  /\ cpPc = "declared"
  /\ InitFoldIdle
  /\ InitTools
  /\ InitSchemaIdle
  /\ InitTemplateIdle
  /\ InitFormatIdle
  /\ InitRestIdle

\* the wire node of the shape is derived
CompileNode ==
  /\ cpPc = "declared"
  /\ cpNode' = convertParameterToJsonSchema(cpShape)
  /\ cpPc' = "compiled"
  /\ UNCHANGED <<cpShape, cpValue, cpVerdict>>
  /\ UNCHANGED <<foldVars, toolVars, schemaVars, templateVars, formatVars>>
  /\ UNCHANGED restVars

\* the validator of the shape is built and the value is parsed with it
ParseValue ==
  /\ cpPc = "compiled"
  /\ cpVerdict' = ZParse(convertParameterToZodSchema(cpShape), cpValue)
  /\ cpPc' = "parsed"
  /\ UNCHANGED <<cpShape, cpValue, cpNode>>
  /\ UNCHANGED <<foldVars, toolVars, schemaVars, templateVars, formatVars>>
  /\ UNCHANGED restVars

NextCompile == CompileNode \/ ParseValue

SpecCompile == InitCompile /\ [][NextCompile]_vars

(***************************************************************************)
(* Enum kind inference                                                     *)
(***************************************************************************)
IsEnumShape(sh) == Get(sh, KType) = S("enum")

\* the declared values of an enum shape, none when the list is missing
EnumValues(sh) == IF Get(sh, KEnum) = Undef THEN << >> ELSE Get(sh, KEnum).v

Listed(sh) == {EnumValues(sh)[i] : i \in DOMAIN EnumValues(sh)}

\* the value is present, or absent with no default to stand in for it
GivenAsIs(sh, v) == v # Undef \/ Get(sh, KDefault) = Undef

\* C12: for an enum shape with values, both compilers choose the kind from the
\* first value.  First value a number: the wire node has type number and the
\* listed values, and the validator accepts exactly the listed values (set
\* membership: [1,2,3] accepts 1 and rejects 4).  First value a string: the
\* wire node has type string and the listed values, and the validator accepts
\* exactly the listed strings.
C12_EnumKindAgrees ==
  (IsEnumShape(cpShape) /\ EnumValues(cpShape) # << >>) =>
    LET numeric == EnumValues(cpShape)[1].t = "num"
    IN /\ cpPc \in {"compiled", "parsed"} =>
            /\ Get(cpNode, KType) = S(IF numeric THEN "number" ELSE "string")
            /\ Get(cpNode, KEnum) = Arr(EnumValues(cpShape))
       /\ (cpPc = "parsed" /\ GivenAsIs(cpShape, cpValue)) =>
            (cpVerdict.ok <=>
               /\ cpValue \in Listed(cpShape)
               /\ numeric \/ cpValue.t = "str")

\* enum [1,2,3]: wire type number, and the value 4 is rejected
C12_Witness ==
  /\ cpPc = "parsed"
  /\ cpShape = EnumOf(<<Num(1), Num(2), Num(3)>>)
  /\ Get(cpNode, KType) = S("number")
  /\ cpValue = Num(4)
  /\ ~cpVerdict.ok

(***************************************************************************)
(* Unrecognized type tags                                                  *)
(***************************************************************************)
KnownTags == {S("string"), S("number"), S("boolean"), S("array"), S("object"), S("enum")}

\* C13: for a shape whose type tag is not one of string, number, boolean,
\* array, object, enum, both compilers fall back to a string scalar: the wire
\* node has type "string" and the validator accepts exactly strings.
C13_UnknownTagFallsBack ==
  Get(cpShape, KType) \notin KnownTags =>
    /\ cpPc \in {"compiled", "parsed"} => Get(cpNode, KType) = S("string")
    /\ (cpPc = "parsed" /\ GivenAsIs(cpShape, cpValue)) =>
         (cpVerdict.ok <=> cpValue.t = "str")

\* the validator half of C13 alone: an unknown tag validates as a string
C13_ValidatorFallsBack ==
  (Get(cpShape, KType) \notin KnownTags /\ cpPc = "parsed" /\ GivenAsIs(cpShape, cpValue)) =>
    (cpVerdict.ok <=> cpValue.t = "str")

(***************************************************************************)
(* Enum without values                                                     *)
(***************************************************************************)
\* the properties of a wire node other than description and default
Structure(n) == SelectSeq(Entries(n), LAMBDA e : e.k \notin {KDescription, KDefault})

\* C14: for an enum shape with an empty or missing values list, the wire node
\* is {type: "string", enum: []} and the validator accepts the empty string
\* and rejects every other value.
C14_EmptyEnum ==
  (IsEnumShape(cpShape) /\ EnumValues(cpShape) = << >>) =>
    /\ cpPc \in {"compiled", "parsed"} =>
         Structure(cpNode) = <<Ent(KType, S("string")), Ent(KEnum, Arr(<< >>))>>
    /\ (cpPc = "parsed" /\ GivenAsIs(cpShape, cpValue)) =>
         (cpVerdict.ok <=> cpValue = EmptyStr)

\* an enum shape with no values list at all: the empty string is accepted
C14_Witness ==
  /\ cpPc = "parsed"
  /\ cpShape = EnumMissing
  /\ cpNode = Obj(<<Ent(KType, S("string")), Ent(KEnum, Arr(<< >>))>>)
  /\ cpValue = EmptyStr
  /\ cpVerdict = Ok(EmptyStr)

(***************************************************************************)
(* Wire schema of object shapes                                            *)
(***************************************************************************)
IsObjectShape(sh) == Get(sh, KType) = S("object")

\* the names of the entries declared required:true, in declaration order
NamesDeclaredRequired(es) ==
  LET sel == SelectSeq(es, LAMBDA e : DeclaredRequired(e.v))
  IN [i \in DOMAIN sel |-> Str(sel[i].k)]

\* {properties: each property compiled, required: the required names}, the
\* required key being left out when no name is required
PropertiesAndRequired(props) ==
  <<Ent(KProperties,
        Obj([i \in DOMAIN Entries(props) |->
               Ent(Entries(props)[i].k, convertParameterToJsonSchema(Entries(props)[i].v))]))>>
    \o (IF NamesDeclaredRequired(Entries(props)) = << >> THEN << >>
        ELSE <<Ent(KRequired, Arr(NamesDeclaredRequired(Entries(props))))>>)

\* the wire node of an object shape, and the wrapped parameter map, when the
\* shape has a properties map
ObjectWithProperties ==
  (IsObjectShape(cpShape) /\ Get(cpShape, KProperties) # Undef
     /\ cpPc \in {"compiled", "parsed"}) =>
    /\ Structure(cpNode)
         = <<Ent(KType, S("object"))>> \o PropertiesAndRequired(Get(cpShape, KProperties))
    /\ convertParametersToJsonSchema(Get(cpShape, KProperties))
         = Obj(<<Ent(KType, S("object"))>> \o PropertiesAndRequired(Get(cpShape, KProperties)))
    /\ Get(cpNode, KRequired) # Arr(<< >>)

OpenObject == <<Ent(KType, S("object")), Ent(KAdditional, Bool(TRUE))>>

\* C15 as stated: an object shape with declared properties compiles to
\* {type: "object", properties, required} with required left out when empty,
\* and an object shape with no declared properties (none listed) compiles to
\* {type: "object", additionalProperties: true}.
C15_ObjectWireAsStated ==
  /\ ObjectWithProperties
  /\ (IsObjectShape(cpShape) /\ Entries(Get(cpShape, KProperties)) = << >>
        /\ cpPc \in {"compiled", "parsed"}) =>
       Structure(cpNode) = OpenObject

\* C15: an object shape that has a properties map compiles to {type: "object",
\* properties: each property compiled recursively, required: the names
\* declared required}, the required key being left out when no property is
\* required, also when the map is empty (properties: {}); an object shape with
\* no properties map compiles to {type: "object", additionalProperties: true};
\* convertParametersToJsonSchema wraps a parameter map like the first form.
C15_ObjectWire ==
  /\ ObjectWithProperties
  /\ (IsObjectShape(cpShape) /\ Get(cpShape, KProperties) = Undef
        /\ cpPc \in {"compiled", "parsed"}) =>
       Structure(cpNode) = OpenObject

\* properties {a: string, b: string required}: required is ["b"]
C15_Witness ==
  /\ cpPc = "compiled"
  /\ cpShape = ObjectShape(FALSE, <<Ent(KA, Shape("string", << >>)), Ent(KB, LeafStrReq)>>)
  /\ cpNode = Obj(<<Ent(KType, S("object")),
                    Ent(KProperties, Obj(<<Ent(KA, Obj(<<Ent(KType, S("string"))>>)),
                                           Ent(KB, Obj(<<Ent(KType, S("string"))>>))>>)),
                    Ent(KRequired, Arr(<<Str(KB)>>))>>)

(***************************************************************************)
(* Array shapes                                                            *)
(***************************************************************************)
IsArrayShape(sh) == Get(sh, KType) = S("array")

\* the validator every element of an array of this shape has to pass
ItemValidator(sh) ==
  IF Get(sh, KItems) = Undef THEN ZString
  ELSE convertParameterToZodSchema(Get(sh, KItems))

\* C16: the wire node of an array shape is {type: "array", items: the item
\* shape compiled recursively}, items being {type: "string"} when no item
\* shape is declared; the validator accepts a value exactly when it is a
\* sequence every element of which passes the validator compiled from the
\* item shape (the string validator when none is declared).
C16_ArrayShapes ==
  IsArrayShape(cpShape) =>
    /\ cpPc \in {"compiled", "parsed"} =>
         Structure(cpNode)
           = <<Ent(KType, S("array")),
               Ent(KItems, IF Get(cpShape, KItems) = Undef
                           THEN Obj(<<Ent(KType, S("string"))>>)
                           ELSE convertParameterToJsonSchema(Get(cpShape, KItems)))>>
    /\ (cpPc = "parsed" /\ GivenAsIs(cpShape, cpValue)) =>
         (cpVerdict.ok <=>
            /\ cpValue.t = "arr"
            /\ \A i \in DOMAIN cpValue.v : ZParse(ItemValidator(cpShape), cpValue.v[i]).ok)

\* items number: ["a","b","c"] is rejected
C16_Witness ==
  /\ cpPc = "parsed"
  /\ cpShape = ArrayShape(Shape("number", << >>))
  /\ cpNode = Obj(<<Ent(KType, S("array")), Ent(KItems, Obj(<<Ent(KType, S("number"))>>))>>)
  /\ cpValue = Arr(<<S("a"), S("b"), S("c")>>)
  /\ ~cpVerdict.ok

(***************************************************************************)
(* Description and default on the wire                                     *)
(***************************************************************************)
\* every level of the shape satisfies Same(level of the shape, its wire node)
RECURSIVE AtEveryLevel(_, _, _)
AtEveryLevel(Same(_, _), sh, n) ==
  /\ Same(sh, n)
  /\ (IsObjectShape(sh) /\ Truthy(Get(sh, KProperties))) =>
       \A i \in DOMAIN Entries(Get(sh, KProperties)) :
         AtEveryLevel(Same, Entries(Get(sh, KProperties))[i].v,
                      Get(Get(n, KProperties), Entries(Get(sh, KProperties))[i].k))
  /\ (IsArrayShape(sh) /\ Truthy(Get(sh, KItems))) =>
       AtEveryLevel(Same, Get(sh, KItems), Get(n, KItems))

\* the node has the description and the default of the shape, and none when
\* the shape has none
CopiedAsStated(sh, n) ==
  /\ Get(n, KDescription) = Get(sh, KDescription)
  /\ Get(n, KDefault) = Get(sh, KDefault)

\* the node has the description of the shape unless it is empty, and the
\* default of the shape whatever it is
CopiedNonEmpty(sh, n) ==
  /\ Get(n, KDescription)
       = (IF Get(sh, KDescription) = EmptyStr THEN Undef ELSE Get(sh, KDescription))
  /\ Get(n, KDefault) = Get(sh, KDefault)

\* C17 as stated: at every level of recursion the wire node carries the
\* description and the default of the shape whenever the shape has them, and
\* neither when the shape lacks it.
C17_CopiedVerbatimAsStated ==
  cpPc \in {"compiled", "parsed"} => AtEveryLevel(CopiedAsStated, cpShape, cpNode)

\* C17: at every level of recursion the wire node carries the description of
\* the shape when it is a non-empty string and the default of the shape
\* whenever it has one (falsy defaults such as 0 and "" included), verbatim,
\* and has neither key otherwise.
C17_CopiedVerbatim ==
  cpPc \in {"compiled", "parsed"} => AtEveryLevel(CopiedNonEmpty, cpShape, cpNode)

\* an array with a description whose item shape has a description and the
\* default 0: both levels carry theirs
C17_Witness ==
  /\ cpPc = "compiled"
  /\ cpShape = Annotate(ArrayShape(Shape("number", <<Ent(KDescription, S("n")),
                                                     Ent(KDefault, Num(0))>>)),
                        <<Ent(KDescription, S("d"))>>)
  /\ Get(cpNode, KDescription) = S("d")
  /\ Get(cpNode, KDefault) = Undef
  /\ Get(Get(cpNode, KItems), KDescription) = S("n")
  /\ Get(Get(cpNode, KItems), KDefault) = Num(0)

(***************************************************************************)
(* processTemplate (utils.ts 173-203).  In a template the atoms "{", "}"   *)
(* and " " are the braces and the blank.                                   *)
(***************************************************************************)
Open == "{"
Close == "}"

\* the names every ordinary object inherits from Object.prototype
KToString == <<"toString">>
KValueOf == <<"valueOf">>
KConstructor == <<"constructor">>
ObjectPrototypeNames == {KToString, KValueOf, KConstructor}

Fn(name) == [t |-> "fn", v |-> name]

\* name in obj: own properties and inherited ones
In(name, obj) == HasKey(Entries(obj), name) \/ name \in ObjectPrototypeNames

\* obj[name]
Lookup(obj, name) ==
  IF HasKey(Entries(obj), name) THEN Get(obj, name)
  ELSE IF name = KConstructor THEN Fn(<<"Object">>)
  ELSE IF name \in ObjectPrototypeNames THEN Fn(name)
  ELSE Undef

\* String(x)
RECURSIVE StringOf(_)
StringOf(x) ==
  CASE x.t = "str" -> x.v
    [] x.t = "num" -> <<CASE x.v = 0 -> "0" [] x.v = 1 -> "1" [] x.v = 5 -> "5" [] OTHER -> "n">>
    [] x.t = "bool" -> <<IF x.v THEN "true" ELSE "false">>
    [] x.t = "undef" -> <<"undefined">>
    [] x.t = "null" -> <<"null">>
    [] x.t = "obj" -> <<"[object Object]">>
    [] x.t = "fn" -> <<"function ">> \o x.v \o <<"() ", Open, " [native code] ", Close>>
    [] x.t = "arr" ->
         Join([i \in DOMAIN x.v |->
                 IF x.v[i].t \in {"undef", "null"} THEN << >> ELSE StringOf(x.v[i])],
              <<Comma>>)

\* the position of the first "}" of t at or after i, Len(t) + 1 when none
RECURSIVE FirstClose(_, _)
FirstClose(t, i) ==
  IF i > Len(t) \/ t[i] = Close THEN i ELSE FirstClose(t, i + 1)

\* /\{\{\s*([^}]+)\s*\}\}/ tried at position i: the position of the last
\* character of the match, 0 when there is none.  Between the braces there
\* is at least one character and no "}".
MatchEnd(t, i) ==
  IF i + 1 <= Len(t) /\ t[i] = Open /\ t[i + 1] = Open
  THEN LET k == FirstClose(t, i + 2)
       IN IF k > i + 2 /\ k + 1 <= Len(t) /\ t[k + 1] = Close THEN k + 1 ELSE 0
  ELSE 0

\* lines 189-200: template.replace(regex, callback) from position i on
RECURSIVE ReplaceFrom(_, _, _)
ReplaceFrom(t, i, ps) ==
  IF i > Len(t) THEN [result |-> << >>, usedParams |-> {}]
  ELSE LET m == MatchEnd(t, i)
       IN IF m = 0
          THEN LET rest == ReplaceFrom(t, i + 1, ps)
               IN [result |-> <<t[i]>> \o rest.result, usedParams |-> rest.usedParams]
          ELSE LET trimmedName == Trim(SubSeq(t, i + 2, m - 2))
                   rest == ReplaceFrom(t, m + 1, ps)
               IN IF In(trimmedName, ps)
                  THEN [result |-> StringOf(Lookup(ps, trimmedName)) \o rest.result,
                        usedParams |-> {trimmedName} \cup rest.usedParams]
                  ELSE [result |-> SubSeq(t, i, m) \o rest.result,
                        usedParams |-> rest.usedParams]

\* a rendering that drops the tokens x, y and z it has no argument for
processTemplate_GapsDropped(tmpl, ps) ==
  IF tmpl \in {Undef, Null} THEN [result |-> EmptyStr, usedParams |-> {}]
  ELSE IF ~Truthy(ps) \/ Entries(ps) = << >> THEN [result |-> tmpl, usedParams |-> {}]
  ELSE LET blanks == <<Ent(<<"x">>, EmptyStr), Ent(<<"y">>, EmptyStr), Ent(<<"z">>, EmptyStr)>>
           r == ReplaceFrom(tmpl.v, 1, Obj(PutAll(blanks, Entries(ps))))
       IN [result |-> Str(r.result), usedParams |-> r.usedParams \cap Keys(ps)]

processTemplate(tmpl, ps) ==
  IF tmpl \in {Undef, Null} THEN [result |-> EmptyStr, usedParams |-> {}]
  ELSE IF ~Truthy(ps) \/ Entries(ps) = << >> THEN [result |-> tmpl, usedParams |-> {}]
  ELSE LET r == ReplaceFrom(tmpl.v, 1, ps)
       IN [result |-> Str(r.result), usedParams |-> r.usedParams]

(***************************************************************************)
(* Templates and arguments                                                 *)
(***************************************************************************)
KX == <<"x">>
KY == <<"y">>
KZ == <<"z">>

\* {{name}}
Token(name) == <<Open, Open>> \o name \o <<Close, Close>>

Pieces ==
  {<<"t">>, <<Blank>>, <<Open>>, <<Close>>, <<Open, Open>>, <<Close, Close>>,
   Token(KX), Token(<<Blank>> \o KX \o <<Blank, Blank>>), Token(KY), Token(KZ),
   Token(KToString), Token(<<Blank>>)}

\* the texts made of at most n pieces
RECURSIVE Texts(_)
Texts(n) ==
  IF n = 0 THEN {<< >>}
  ELSE Texts(n - 1) \cup {p \o t : p \in Pieces, t \in Texts(n - 1)}

Templates == {Undef, Null} \cup {Str(t) : t \in Texts(MaxPieces)}

ArgumentSets ==
  {Undef, Obj(<< >>),
   Obj(<<Ent(KX, Num(5))>>),
   Obj(<<Ent(KY, S("s"))>>),
   Obj(<<Ent(KX, Null), Ent(KY, Str(Token(KX)))>>),
   Obj(<<Ent(KX, Num(5)), Ent(KY, Bool(TRUE)), Ent(<< >>, Num(1))>>),
   Obj(<<Ent(KToString, S("own"))>>)}

InitTemplate ==
  /\ tpTemplate \in Templates
  /\ tpParams \in ArgumentSets
  /\ tpOut = Undef
  /\ tpPc = "ready"
  /\ InitFoldIdle
  /\ InitTools
  /\ InitSchemaIdle
  /\ InitCompileIdle
  /\ InitFormatIdle
  /\ InitRestIdle

CallProcessTemplate ==
  /\ tpPc = "ready"
  /\ tpOut' = processTemplate(tpTemplate, tpParams)
  /\ tpPc' = "done"
  /\ UNCHANGED <<tpTemplate, tpParams>>
  /\ UNCHANGED <<foldVars, toolVars, schemaVars, compileVars, formatVars>>
  /\ UNCHANGED restVars

NextTemplate == CallProcessTemplate

SpecTemplate == InitTemplate /\ [][NextTemplate]_vars

(***************************************************************************)
(* Template substitution                                                   *)
(***************************************************************************)
\* t[i..j] is a token: "{{", at least one character none of which is "}", "}}"
IsToken(t, i, j) ==
  /\ 1 <= i /\ i + 4 <= j /\ j <= Len(t)
  /\ t[i] = Open /\ t[i + 1] = Open
  /\ t[j - 1] = Close /\ t[j] = Close
  /\ \A k \in (i + 2)..(j - 2) : t[k] # Close

\* the tokens of t read from left to right from position i, none overlapping
RECURSIVE TokensFrom(_, _)
TokensFrom(t, i) ==
  IF i > Len(t) THEN {}
  ELSE IF \E j \in i..Len(t) : IsToken(t, i, j)
  THEN LET j == CHOOSE j \in i..Len(t) : IsToken(t, i, j)
       IN {<<i, j>>} \cup TokensFrom(t, j + 1)
  ELSE TokensFrom(t, i + 1)

Tokens(t) == TokensFrom(t, 1)

\* the trimmed name of a token
NameOf(t, tok) == Trim(SubSeq(t, tok[1] + 2, tok[2] - 2))

TokenNames(t) == {NameOf(t, tok) : tok \in Tokens(t)}

\* the names the arguments themselves hold
ArgumentNames(ps) == Keys(ps)

\* t from position i on, every token that names an argument replaced by the
\* string form of its value and every other character kept
RECURSIVE Substituted(_, _, _)
Substituted(t, i, ps) ==
  IF i > Len(t) THEN << >>
  ELSE IF \E tok \in Tokens(t) : tok[1] = i
  THEN LET tok == CHOOSE tok \in Tokens(t) : tok[1] = i
       IN (IF NameOf(t, tok) \in ArgumentNames(ps)
           THEN StringOf(Get(ps, NameOf(t, tok)))
           ELSE SubSeq(t, tok[1], tok[2])) \o Substituted(t, tok[2] + 1, ps)
  ELSE <<t[i]>> \o Substituted(t, i + 1, ps)

Called == tpPc = "done" /\ tpTemplate.t = "str"

\* C18: every token whose trimmed name is a key of the arguments is replaced
\* by the string form of the argument's value, at every occurrence, and the
\* used-set is exactly the set of argument names that occur as a token.
C18_Substitution ==
  Called =>
    /\ tpOut.result = Str(Substituted(tpTemplate.v, 1, tpParams))
    /\ tpOut.usedParams = TokenNames(tpTemplate.v) \cap ArgumentNames(tpParams)

\* no token of the template bears a name that the arguments inherit without
\* holding it themselves
NoInheritedName ==
  \A n \in TokenNames(tpTemplate.v) :
    n \in ObjectPrototypeNames => n \in ArgumentNames(tpParams)

\* C18 on the templates whose tokens name no inherited property
C18_SubstitutionOfOwnNames ==
  (Called /\ (NoInheritedName \/ Entries(tpParams) = << >>)) =>
    /\ tpOut.result = Str(Substituted(tpTemplate.v, 1, tpParams))
    /\ tpOut.usedParams = TokenNames(tpTemplate.v) \cap ArgumentNames(tpParams)

\* processTemplate("{{x}}", {x: 5}) returns "5" with used-set {x}
C18_Example ==
  /\ tpPc = "done"
  /\ tpTemplate = Str(Token(KX))
  /\ tpParams = Obj(<<Ent(KX, Num(5))>>)
  /\ tpOut = [result |-> S("5"), usedParams |-> {KX}]

\* C19: a token whose trimmed name is not a key of the arguments is left
\* verbatim and is not recorded as used; with no token naming a key, and in
\* particular with empty arguments, the template is returned unchanged with
\* an empty used-set.
C19_GapsLeftVerbatim ==
  Called =>
    /\ tpOut.usedParams \subseteq ArgumentNames(tpParams)
    /\ (TokenNames(tpTemplate.v) \cap ArgumentNames(tpParams) = {}) =>
         tpOut = [result |-> tpTemplate, usedParams |-> {}]

\* C19 with empty arguments alone
C19_EmptyArguments ==
  (Called /\ Entries(tpParams) = << >>) =>
    tpOut = [result |-> tpTemplate, usedParams |-> {}]

(***************************************************************************)
(* appendFormattedTools (utils.ts 89-164).  A text is a sequence of atoms, *)
(* the atom NL being the line break.                                       *)
(***************************************************************************)
NL == "\n"

\* `${x}` of a string property that may be missing
TextOf(x) == IF x.t = "str" THEN x.v ELSE << >>

\* an entry text that never shows the optional flag
EntryText_NoSuffix(tool) ==
  TextOf(Get(tool, KName))
    \o (IF Truthy(Get(tool, KDescription)) THEN <<": ">> ELSE << >>)
    \o (IF Truthy(Get(tool, KDescription)) THEN TextOf(Get(tool, KDescription)) ELSE << >>)
    \o (IF Truthy(Get(tool, KPrompt)) /\ Truthy(Get(tool, KDescription)) THEN <<" - ">> ELSE << >>)
    \o (IF Truthy(Get(tool, KPrompt)) /\ ~Truthy(Get(tool, KDescription)) THEN <<": ">> ELSE << >>)
    \o (IF Truthy(Get(tool, KPrompt)) THEN TextOf(Get(tool, KPrompt)) ELSE << >>)
    \o <<NL>>

\* lines 108-129 and 136-157: what follows the list marker on an entry's line
EntryText(tool) ==
  TextOf(Get(tool, KName))
    \o (IF (~Truthy(Get(tool, KPrompt)) /\ Truthy(Get(tool, KDescription)))
           \/ (Truthy(Get(tool, KPrompt)) /\ Truthy(Get(tool, KDescription)))
        THEN <<": ">> ELSE << >>)
    \o (IF Truthy(Get(tool, KDescription)) THEN TextOf(Get(tool, KDescription)) ELSE << >>)
    \o (IF Truthy(Get(tool, KPrompt)) /\ Truthy(Get(tool, KDescription)) THEN <<" - ">> ELSE << >>)
    \o (IF Truthy(Get(tool, KPrompt)) /\ ~Truthy(Get(tool, KDescription)) THEN <<": ">> ELSE << >>)
    \o (IF Truthy(Get(tool, KPrompt)) THEN TextOf(Get(tool, KPrompt)) ELSE << >>)
    \o (IF Truthy(Get(tool, KOptional)) THEN <<" (Optional)">> ELSE << >>)
    \o <<NL>>

\* `${index + 1}`
DecimalText(n) ==
  IF n \in 0..9 THEN <<(<<"0", "1", "2", "3", "4", "5", "6", "7", "8", "9">>)[n + 1]>>
  ELSE <<"n">>

\* lines 107-130: the numbered lines of the entries from index i on
RECURSIVE SequentialLines(_, _)
SequentialLines(toolsList, i) ==
  IF i > Len(toolsList) THEN << >>
  ELSE DecimalText(i) \o <<". ">> \o EntryText(toolsList[i]) \o SequentialLines(toolsList, i + 1)

\* lines 135-158: the bulleted lines of the entries from index i on
RECURSIVE DynamicLines(_, _)
DynamicLines(toolsList, i) ==
  IF i > Len(toolsList) THEN << >>
  ELSE <<"- ">> \o EntryText(toolsList[i]) \o DynamicLines(toolsList, i + 1)

SequentialIntro ==
  <<"If all required user input/feedback is acquired or if no input/feedback is needed, execute this exact sequence of tools to complete this task:",
    NL, NL>>

DynamicIntro == <<"Use these tools as needed to complete the user's request:", NL, NL>>

NextSteps ==
  <<NL,
    "After using each tool, return a 'Next Steps' section with a list of the next steps to take / remaining tools to invoke along with each tool's prompt/description and 'optional' flag if present.">>

\* a rendering that bullets the lines whatever the mode
appendFormattedTools_AlwaysBulleted(baseText, toolsList, toolMode) ==
  IF Len(toolsList) = 0 THEN baseText
  ELSE baseText \o <<NL, NL, "## Available Tools", NL>>
         \o DynamicIntro \o DynamicLines(toolsList, 1) \o NextSteps

\* a rendering that adds the section also for an empty list
appendFormattedTools_AlwaysSection(baseText, toolsList, toolMode) ==
  baseText \o <<NL, NL, "## Available Tools", NL>>
    \o (IF toolMode = S("sequential")
        THEN SequentialIntro \o SequentialLines(toolsList, 1)
        ELSE DynamicIntro \o DynamicLines(toolsList, 1))
    \o NextSteps

appendFormattedTools(baseText, toolsList, toolMode) ==
  IF Len(toolsList) = 0 THEN baseText
  ELSE baseText \o <<NL, NL, "## Available Tools", NL>>
         \o (IF toolMode = S("sequential")
             THEN SequentialIntro \o SequentialLines(toolsList, 1)
             ELSE DynamicIntro \o DynamicLines(toolsList, 1))
         \o NextSteps

(***************************************************************************)
(* Tool lists                                                              *)
(***************************************************************************)
\* a property that is missing, empty or set
OptionalText(k, text) == {<< >>, <<Ent(k, EmptyStr)>>, <<Ent(k, S(text))>>}

ToolItems ==
  {Obj(<<Ent(KName, S("a"))>> \o d \o p \o o) :
     d \in OptionalText(KDescription, "desc"),
     p \in OptionalText(KPrompt, "prompt"),
     o \in {<< >>, <<Ent(KOptional, Bool(FALSE))>>, <<Ent(KOptional, Bool(TRUE))>>}}
    \cup {Obj(<<Ent(KName, S("b"))>> \o d) : d \in OptionalText(KDescription, "desc")}

\* the lists of at most n items
RECURSIVE ToolLists(_)
ToolLists(n) ==
  IF n = 0 THEN {<< >>}
  ELSE ToolLists(n - 1) \cup {<<t>> \o l : t \in ToolItems, l \in ToolLists(n - 1)}

ToolModes == {Undef, S("sequential"), S("situational")}

InitFormat ==
  /\ ftBase \in {<< >>, <<"base">>}
  /\ ftTools \in ToolLists(MaxTools)
  /\ ftMode \in ToolModes
  /\ ftText = << >>
  /\ ftPc = "ready"
  /\ InitFoldIdle
  /\ InitTools
  /\ InitSchemaIdle
  /\ InitCompileIdle
  /\ InitTemplateIdle
  /\ InitRestIdle

CallAppendFormattedTools ==
  /\ ftPc = "ready"
  /\ ftText' = appendFormattedTools(ftBase, ftTools, ftMode)
  /\ ftPc' = "done"
  /\ UNCHANGED <<ftBase, ftTools, ftMode>>
  /\ UNCHANGED <<foldVars, toolVars, schemaVars, compileVars, templateVars>>
  /\ UNCHANGED restVars

NextFormat == CallAppendFormattedTools

SpecFormat == InitFormat /\ [][NextFormat]_vars

(***************************************************************************)
(* Entry lines of the tools section                                        *)
(***************************************************************************)
\* the lines of a text, `cur` being the line read so far
RECURSIVE LinesFrom(_, _)
LinesFrom(text, cur) ==
  IF text = << >> THEN <<cur>>
  ELSE IF Head(text) = NL THEN <<cur>> \o LinesFrom(Tail(text), << >>)
  ELSE LinesFrom(Tail(text), Append(cur, Head(text)))

\* the line of the i-th entry: five lines of heading come before the entries
EntryLine(text, i) == LinesFrom(text, << >>)[5 + i]

\* a description or prompt that is there and not empty
Present(tool, k) == Get(tool, k).t = "str" /\ Get(tool, k).v # << >>

\* name, then ": " and the one of description/prompt that is present, or
\* ": " description " - " prompt when both are, or nothing when neither is
NameAndRest(tool) ==
  LET name == Get(tool, KName).v
      description == Get(tool, KDescription).v
      prompt == Get(tool, KPrompt).v
  IN CASE Present(tool, KDescription) /\ Present(tool, KPrompt) ->
            name \o <<": ">> \o description \o <<" - ">> \o prompt
       [] Present(tool, KDescription) /\ ~Present(tool, KPrompt) ->
            name \o <<": ">> \o description
       [] ~Present(tool, KDescription) /\ Present(tool, KPrompt) ->
            name \o <<": ">> \o prompt
       [] OTHER -> name

Marker(i) == IF ftMode = S("sequential") THEN DecimalText(i) \o <<". ">> ELSE <<"- ">>

\* C20: the line of an entry is its list marker, the tool name, then: with
\* only one of description/prompt present a colon separator and that text;
\* with both present the description and the prompt joined by a dash (after
\* the colon separator); with neither the name alone; and the line ends with
\* " (Optional)" exactly when the entry's optional flag is set.
C20_EntryLineFormat ==
  (ftPc = "done" /\ ftTools # << >>) =>
    \A i \in DOMAIN ftTools :
      EntryLine(ftText, i)
        = Marker(i) \o NameAndRest(ftTools[i])
            \o (IF Get(ftTools[i], KOptional) = Bool(TRUE) THEN <<" (Optional)">> ELSE << >>)

\* a list whose first entry has description and prompt and the optional flag,
\* and whose second has neither: "1. a: desc - prompt (Optional)" and "2. a"
C20_Witness ==
  /\ ftPc = "done"
  /\ ftMode = S("sequential")
  /\ Len(ftTools) = 2
  /\ ftTools[1] = Obj(<<Ent(KName, S("a")), Ent(KDescription, S("desc")),
                        Ent(KPrompt, S("prompt")), Ent(KOptional, Bool(TRUE))>>)
  /\ ftTools[2] = Obj(<<Ent(KName, S("a")), Ent(KDescription, EmptyStr)>>)
  /\ EntryLine(ftText, 1) = <<"1", ". ", "a", ": ", "desc", " - ", "prompt", " (Optional)">>
  /\ EntryLine(ftText, 2) = <<"2", ". ", "a">>

(***************************************************************************)
(* The tools section as a whole                                            *)
(***************************************************************************)
Lines(text) == LinesFrom(text, << >>)

StartsWith(text, prefix) ==
  Len(prefix) <= Len(text) /\ SubSeq(text, 1, Len(prefix)) = prefix

EndsWith(text, suffix) ==
  Len(suffix) <= Len(text) /\ SubSeq(text, Len(text) - Len(suffix) + 1, Len(text)) = suffix

\* C21: for a non-empty list the output is the base text, the
\* "## Available Tools" header, one line per entry in list order (numbered
\* 1..n with mode sequential, bulleted with mode situational or none), and in
\* both modes the same trailing 'Next Steps' instruction after the list.
C21_SectionLayout ==
  (ftPc = "done" /\ ftTools # << >>) =>
    /\ StartsWith(ftText, ftBase \o <<NL, NL, "## Available Tools", NL>>)
    /\ Len(Lines(ftText)) = 5 + Len(ftTools) + 2
    /\ \A i \in DOMAIN ftTools :
         StartsWith(EntryLine(ftText, i),
                    (IF ftMode = S("sequential") THEN DecimalText(i) \o <<". ">> ELSE <<"- ">>)
                      \o Get(ftTools[i], KName).v)
    /\ EndsWith(ftText, <<NL>> \o NextSteps)

\* two entries a then b in sequential mode: the lines are "1. a" and "2. b"
C21_Witness ==
  /\ ftPc = "done"
  /\ ftMode = S("sequential")
  /\ ftTools = <<Obj(<<Ent(KName, S("a"))>>), Obj(<<Ent(KName, S("b"))>>)>>
  /\ EntryLine(ftText, 1) = <<"1", ". ", "a">>
  /\ EntryLine(ftText, 2) = <<"2", ". ", "b">>
  /\ EndsWith(ftText, NextSteps)

\* C22: with an empty list the base text is returned unchanged, whatever the
\* mode: no header, no list and no trailing instruction.
C22_EmptyListUnchanged ==
  (ftPc = "done" /\ ftTools = << >>) => ftText = ftBase

\* an empty list in sequential mode
C22_Witness ==
  /\ ftPc = "done"
  /\ ftTools = << >>
  /\ ftMode = S("sequential")
  /\ ftBase = <<"base">>
  /\ ftText = <<"base">>

(***************************************************************************)
(* Normalizing and rendering a tools reference                             *)
(***************************************************************************)
InitCoreIdle ==
  /\ InitFoldIdle
  /\ InitTools
  /\ InitSchemaIdle
  /\ InitCompileIdle
  /\ InitTemplateIdle
  /\ InitFormatIdle

Names == {KA, KB, KC}

\* the sequences of distinct tool names
NameSeqs ==
  {ns \in UNION {[1..n -> Names] : n \in 0..Cardinality(Names)} :
     \A i, j \in DOMAIN ns : i # j => ns[i] # ns[j]}

Separators == {<<Comma>>, <<Comma, Blank>>}

\* the two mapping forms of a sequence of names
MappingForms(ns) ==
  {Obj([i \in DOMAIN ns |-> Ent(ns[i], EmptyStr)]),
   Obj([i \in DOMAIN ns |->
          Ent(ns[i], Obj(<<Ent(KDescription, EmptyStr), Ent(KPrompt, EmptyStr),
                           Ent(KOptional, Bool(FALSE))>>))])}

BasePrompt == <<"base">>

InitToolsRef ==
  /\ \/ trRef \in ToolsIn \cup {Null} /\ trAlt = Undef
     \/ \E ns \in NameSeqs, sep \in Separators :
          trRef = Str(Join(ns, sep)) /\ trAlt \in MappingForms(ns)
  /\ trMode \in ToolModes
  /\ trList = << >> /\ trAltList = << >> /\ trText = << >> /\ trAltText = << >>
  /\ trPc = "ready"
  /\ InitCoreIdle
  /\ InitStoreIdle
  /\ InitValidateIdle
  /\ InitIncrIdle
  /\ InitPresetIdle

\* the references are normalized
NormalizeRefs ==
  /\ trPc = "ready"
  /\ trList' = formatToolsList(trRef)
  /\ trAltList' = formatToolsList(trAlt)
  /\ trPc' = "listed"
  /\ UNCHANGED <<trRef, trAlt, trMode, trText, trAltText>>
  /\ UNCHANGED <<coreVars, storeVars, validateVars, incrVars, presetVars>>

\* the normalized lists are rendered after the prompt
RenderRefs ==
  /\ trPc = "listed"
  /\ trText' = appendFormattedTools(BasePrompt, trList, trMode)
  /\ trAltText' = appendFormattedTools(BasePrompt, trAltList, trMode)
  /\ trPc' = "rendered"
  /\ UNCHANGED <<trRef, trAlt, trMode, trList, trAltList>>
  /\ UNCHANGED <<coreVars, storeVars, validateVars, incrVars, presetVars>>

NextToolsRef == NormalizeRefs \/ RenderRefs

SpecToolsRef == InitToolsRef /\ [][NextToolsRef]_vars

(***************************************************************************)
(* Claims about tools references                                           *)
(***************************************************************************)
Listed2 == trPc \in {"listed", "rendered"}

\* the entry a mapping's property stands for
EntryOfProperty(e) ==
  IF e.v.t = "str"
  THEN Obj(<<Ent(KName, Str(e.k)), Ent(KDescription, e.v)>>)
  ELSE Obj(<<Ent(KName, Str(e.k)),
             Ent(KDescription, IF Get(e.v, KDescription) = Undef THEN EmptyStr
                               ELSE Get(e.v, KDescription)),
             Ent(KPrompt, IF Get(e.v, KPrompt) = Undef THEN EmptyStr ELSE Get(e.v, KPrompt)),
             Ent(KOptional, IF Get(e.v, KOptional) = Undef THEN Bool(FALSE)
                            ELSE Get(e.v, KOptional))>>)

\* C23: an absent reference yields the empty list; a string is split on
\* commas and each trimmed piece becomes one entry with empty description, in
\* order (the empty string yielding a single entry with empty name); a
\* mapping yields one entry per key in declaration order, a string value
\* becoming the description and a record contributing its description, prompt
\* and optional with defaults "", "" and false.
C23_Normalization ==
  Listed2 =>
    /\ trRef \in {Undef, Null} => trList = << >>
    /\ trRef.t = "str" =>
         /\ Len(trList) = Len(Split(trRef.v))
         /\ \A i \in DOMAIN trList :
              trList[i] = Obj(<<Ent(KName, Str(Trim(Split(trRef.v)[i]))),
                                Ent(KDescription, EmptyStr)>>)
    /\ trRef = EmptyStr =>
         trList = <<Obj(<<Ent(KName, EmptyStr), Ent(KDescription, EmptyStr)>>)>>
    /\ trRef.t = "obj" =>
         /\ Len(trList) = Len(trRef.v)
         /\ \A i \in DOMAIN trList : trList[i] = EntryOfProperty(trRef.v[i])

\* {b: {prompt: "p2", optional: true}, a: "x"} yields b then a
C23_Witness ==
  /\ trPc = "listed"
  /\ trRef = Obj(<<Ent(KB, RecPO), Ent(KA, Str(<<"x">>))>>)
  /\ trList = <<Obj(<<Ent(KName, Str(KB)), Ent(KDescription, EmptyStr),
                      Ent(KPrompt, Str(<<"p2">>)), Ent(KOptional, Bool(TRUE))>>),
                Obj(<<Ent(KName, Str(KA)), Ent(KDescription, Str(<<"x">>))>>)>>

NamesOf(list) == [i \in DOMAIN list |-> Get(list[i], KName)]

SameNamesSameText ==
  /\ Listed2 => NamesOf(trList) = NamesOf(trAltList)
  /\ trPc = "rendered" => trText = trAltText

\* C24 as stated: for every sequence of distinct tool names, the
\* comma-separated string form and the mapping form normalize to the same
\* names in the same order and render to the identical text in both modes.
C24_FormsEquivalentAsStated == trAlt # Undef => SameNamesSameText

\* C24: for every non-empty sequence of distinct tool names, the
\* comma-separated string form and the mapping form that gives each name an
\* empty description (or the record {description: "", prompt: "", optional:
\* false}) normalize to the same names in the same order and render to the
\* identical text in both modes.
C24_FormsEquivalent == (trAlt # Undef /\ Entries(trAlt) # << >>) => SameNamesSameText

\* "a, b" and {a: {description: "", prompt: "", optional: false}, b: ...}
\* render to the same numbered section
C24_Witness ==
  /\ trPc = "rendered"
  /\ trMode = S("sequential")
  /\ trRef = Str(<<"a", Comma, Blank, "b">>)
  /\ trAlt.t = "obj"
  /\ Get(trAlt, KA).t = "obj"
  /\ NamesOf(trAltList) = <<Str(KA), Str(KB)>>
  /\ trText = trAltText
  /\ EntryLine(trText, 2) = <<"2", ". ", "b">>

(***************************************************************************)
(* Claims about overlays without a tools field                             *)
(***************************************************************************)
ToolKeys == {KT, KU}

\* the second source overlays a declaration of the first one, the base has
\* a tools reference and the overlay has no tools field
OverlayWithoutTools(t) ==
  /\ Len(hist) = 2
  /\ t \in Keys(hist[1]) /\ t \in Keys(hist[2])
  /\ KTools \in Keys(Get(hist[1], t))
  /\ KTools \notin Keys(Get(hist[2], t))

\* C26: merging with an overlay declaration that has no tools field is the
\* identity on the normalized tool list: for every tools reference r of the
\* base declaration (the empty string included), formatToolsList of the
\* merged declaration's tools equals formatToolsList(r).
C26_OverlayWithoutToolsIsIdentity ==
  \A t \in ToolKeys :
    OverlayWithoutTools(t) =>
      formatToolsList(Get(Get(acc, t), KTools)) = formatToolsList(Get(Get(hist[1], t), KTools))

\* the same for base references other than the empty string
C26_NonEmptyReference ==
  \A t \in ToolKeys :
    (OverlayWithoutTools(t) /\ Get(Get(hist[1], t), KTools) # EmptyStr) =>
      formatToolsList(Get(Get(acc, t), KTools)) = formatToolsList(Get(Get(hist[1], t), KTools))

C26_NonEmptyReached ==
  \E t \in ToolKeys :
    /\ OverlayWithoutTools(t)
    /\ Get(Get(hist[1], t), KTools).t = "obj"
    /\ Len(formatToolsList(Get(Get(acc, t), KTools))) > 0

(***************************************************************************)
(* mergeConfigs on objects held by reference                               *)
(*                                                                         *)
(* The store is a sequence of cells, one per object; a cell is the         *)
(* object's property list, and a property holds a primitive or a           *)
(* reference to a cell.  A spread or an object literal allocates a cell;   *)
(* an assignment of an object shares its cell.                             *)
(***************************************************************************)
Ref(n) == [t |-> "ref", v |-> n]
IsRef(x) == x.t = "ref"

New(st, es) == [st |-> Append(st, es), v |-> Ref(Len(st) + 1)]

RECURSIVE Alloc(_, _)
RECURSIVE AllocEntries(_, _, _)
\* yaml.load : every object of the parsed document is a cell of its own
Alloc(st, x) ==
  IF x.t = "obj"
  THEN LET r == AllocEntries(st, x.v, << >>) IN New(r.st, r.es)
  ELSE [st |-> st, v |-> x]

AllocEntries(st, es, done) ==
  IF es = << >> THEN [st |-> st, es |-> done]
  ELSE LET a == Alloc(st, Head(es).v)
       IN AllocEntries(a.st, Tail(es), Append(done, Ent(Head(es).k, a.v)))

RECURSIVE Deref(_, _)
\* the value a reference stands for
Deref(st, x) ==
  IF IsRef(x)
  THEN Obj([i \in DOMAIN st[x.v] |-> Ent(st[x.v][i].k, Deref(st, st[x.v][i].v))])
  ELSE x

TruthyH(x) == IsRef(x) \/ Truthy(x)
TypeOfH(x) == IF IsRef(x) THEN "object" ELSE TypeOf(x)

\* the own properties of x, as Object.entries(x) and {...x} see them
OwnOf(st, x) == IF IsRef(x) THEN st[x.v] ELSE << >>

\* x?.k
GetH(st, x, k) == Get(Obj(OwnOf(st, x)), k)

\* the properties of {...a, ...b}
SpreadH(st, a, b) == PutAll(PutAll(<< >>, OwnOf(st, a)), OwnOf(st, b))

\* config.ts 155-163: a string side becomes a new object, another side is kept
ToolsAsObjectH(st, x) ==
  IF x.t = "str"
  THEN New(st, FromEntries([i \in DOMAIN SplitTrim(x.v) |-> Ent(SplitTrim(x.v)[i], EmptyStr)]))
  ELSE [st |-> st, v |-> x]

\* config.ts 169-179: one iteration of the loop, on the cell of `result`
MergeToolEntryH(st, result, e) ==
  LET cur == Get(Obj(st[result]), e.k)
  IN IF /\ HasKey(st[result], e.k)
        /\ TypeOfH(cur) = "object"
        /\ TypeOfH(e.v) = "object"
     THEN LET n == New(st, SpreadH(st, cur, e.v))
          IN [n.st EXCEPT ![result] = Put(@, e.k, n.v)]
     ELSE [st EXCEPT ![result] = Put(@, e.k, e.v)]

RECURSIVE MergeToolEntriesH(_, _, _)
MergeToolEntriesH(st, result, es) ==
  IF es = << >> THEN st
  ELSE MergeToolEntriesH(MergeToolEntryH(st, result, Head(es)), result, Tail(es))

\* config.ts 133-183
mergeToolsH(st, targetTools, sourceTools) ==
  IF ~TruthyH(targetTools) /\ ~TruthyH(sourceTools) THEN [st |-> st, v |-> Undef]
  ELSE IF ~TruthyH(targetTools) THEN [st |-> st, v |-> sourceTools]
  ELSE IF ~TruthyH(sourceTools) THEN [st |-> st, v |-> targetTools]
  ELSE IF targetTools.t = "str" /\ sourceTools.t = "str"
  THEN [st |-> st, v |-> MergeToolStrings(targetTools.v, sourceTools.v)]
  ELSE LET targetObj == ToolsAsObjectH(st, targetTools)
           sourceObj == ToolsAsObjectH(targetObj.st, sourceTools)
           result == New(sourceObj.st, OwnOf(sourceObj.st, targetObj.v))
       IN [st |-> MergeToolEntriesH(result.st, result.v.v, OwnOf(result.st, sourceObj.v)),
           v |-> result.v]

\* a merge that assigns the overlay's fields onto the record the target holds
MergeConfigEntryH_Assign(st, target, e) ==
  LET cur == Get(Obj(st[target]), e.k)
  IN IF IsRef(cur)
     THEN LET m == mergeToolsH(st, GetH(st, cur, KTools), GetH(st, e.v, KTools))
          IN [m.st EXCEPT ![cur.v] = Put(SpreadH(m.st, cur, e.v), KTools, m.v)]
     ELSE [st EXCEPT ![target] = Put(@, e.k, e.v)]

\* config.ts 109-120: one iteration of the forEach, on the cell of `target`
MergeConfigEntryH(st, target, e) ==
  LET cur == Get(Obj(st[target]), e.k)
  IN IF TruthyH(cur)
     THEN LET m == mergeToolsH(st, GetH(st, cur, KTools), GetH(st, e.v, KTools))
              n == New(m.st, Put(SpreadH(m.st, cur, e.v), KTools, m.v))
          IN [n.st EXCEPT ![target] = Put(@, e.k, n.v)]
     ELSE [st EXCEPT ![target] = Put(@, e.k, e.v)]

RECURSIVE MergeConfigEntriesH(_, _, _)
MergeConfigEntriesH(st, target, es) ==
  IF es = << >> THEN st
  ELSE MergeConfigEntriesH(MergeConfigEntryH(st, target, Head(es)), target, Tail(es))

\* config.ts 104-124: target and source are cells; the target is returned
mergeConfigsH(st, target, source) ==
  [st |-> MergeConfigEntriesH(st, target, st[source]), ret |-> target]

MaxFolds == 3

\* the documents merged by reference: those of the fold whose declaration
\* of t has no scalar fields or the first pair of them
AliasSources ==
  {source \in Sources :
     KT \in Keys(source) =>
       \A k \in Keys(Get(source, KT)) : k \in {KTools, KPrompt, KDisabled}}

\* the accumulator is the first cell
InitAlias ==
  /\ stStore = << << >> >>
  /\ stRoots = << >>
  /\ stParsed = << >>
  /\ stBefore = << << >> >>
  /\ stGot = << >>
  /\ stPc = "fold"
  /\ InitCoreIdle
  /\ InitToolsRefIdle
  /\ InitValidateIdle
  /\ InitIncrIdle
  /\ InitPresetIdle

\* a source is parsed and merged into the accumulator
FoldParsed(source) ==
  /\ stPc = "fold"
  /\ Len(stParsed) < MaxSources
  /\ Len(stGot) < MaxFolds
  /\ LET a == Alloc(stStore, source)
     IN /\ stBefore' = a.st
        /\ stStore' = mergeConfigsH(a.st, AccRef, a.v.v).st
        /\ stRoots' = Append(stRoots, a.v)
  /\ stParsed' = Append(stParsed, source)
  /\ stGot' = Append(stGot, Len(stParsed) + 1)
  /\ UNCHANGED stPc
  /\ UNCHANGED <<coreVars, toolsRefVars, validateVars, incrVars, presetVars>>

\* a source object merged before is merged into the accumulator again
FoldAgain(i) ==
  /\ stPc = "fold"
  /\ Len(stGot) < MaxFolds
  /\ stBefore' = stStore
  /\ stStore' = mergeConfigsH(stStore, AccRef, stRoots[i].v).st
  /\ stGot' = Append(stGot, i)
  /\ UNCHANGED <<stRoots, stParsed, stPc>>
  /\ UNCHANGED <<coreVars, toolsRefVars, validateVars, incrVars, presetVars>>

NextAlias ==
  \/ \E source \in AliasSources : FoldParsed(source)
  \/ \E i \in DOMAIN stRoots : FoldAgain(i)

SpecAlias == InitAlias /\ [][NextAlias]_vars

(***************************************************************************)
(* Claims about the overlay argument                                       *)
(***************************************************************************)
\* the accumulator on references stands for the fold on values
AliasAgreesWithFold ==
  Deref(stStore, Ref(AccRef)) = FoldAll([j \in DOMAIN stGot |-> stParsed[stGot[j]]])

\* C25: mergeConfigs never modifies its overlay argument: after any sequence
\* of folds into one accumulator, every source, and every declaration record
\* and tools reference inside it, equals its value before the fold (every
\* object other than the accumulator that existed before a fold is unchanged
\* by it), even though the accumulator may hold a source's declaration
\* record by reference.
C25_OverlayUnmodified ==
  /\ \A i \in DOMAIN stRoots : Deref(stStore, stRoots[i]) = stParsed[i]
  /\ \A r \in DOMAIN stBefore : r # AccRef => stStore[r] = stBefore[r]

\* the accumulator holds the first source's record for u by reference, and a
\* later fold has merged another source into the record for t that it got
\* from the first source
C25_Witness ==
  /\ Len(stParsed) = 2
  /\ IsRef(Get(Obj(stStore[AccRef]), KU))
  /\ Get(Obj(stStore[AccRef]), KU) = Get(Obj(stStore[stRoots[1].v]), KU)
  /\ KT \in Keys(stParsed[1]) /\ KT \in Keys(stParsed[2])
  /\ Get(Obj(stStore[AccRef]), KT) # Get(Obj(stStore[stRoots[1].v]), KT)
  /\ Deref(stStore, stRoots[1]) = stParsed[1]

(***************************************************************************)
(* validateToolConfig (config.ts 462-555) and validateNestedParameter      *)
(* (config.ts 563-617)                                                     *)
(***************************************************************************)
KParameters == <<"parameters">>

\* the outcome of an evaluation that raised
Thrown == [t |-> "throw"]

\* reading a property of null or undefined raises a TypeError
NoProps(x) == x.t \in {"null", "undef"}

validTypes == {S("string"), S("number"), S("boolean"), S("array"), S("object"), S("enum")}

\* !param.enum || !Array.isArray(param.enum) || param.enum.length === 0
EnumNotProvided(param) ==
  LET e == Get(param, KEnum)
  IN ~Truthy(e) \/ e.t # "arr" \/ Len(e.v) = 0

MissingType(nestedName, paramPath) ==
  Str(<<"Nested parameter \"">> \o nestedName \o <<"\" in \"">> \o paramPath
        \o <<"\" is missing type property">>)

InvalidType(nestedName, paramPath, ty) ==
  Str(<<"Nested parameter \"">> \o nestedName \o <<"\" in \"">> \o paramPath
        \o <<"\" has invalid type \"">> \o StringOf(ty) \o <<"\"">>)

RECURSIVE validateNestedParameter(_, _)
RECURSIVE ValidateProperties(_, _)
\* lines 572-614; the body of the top-level loop from line 489 on is the
\* same text with paramName for the path
validateNestedParameter(param, paramPath) ==
  IF NoProps(param) THEN Thrown
  ELSE IF Get(param, KType) = S("enum") /\ EnumNotProvided(param)
  THEN Str(<<"Parameter \"">> \o paramPath \o <<"\" of type \"enum\" must have a non-empty enum array">>)
  ELSE LET nested ==
             IF Get(param, KType) = S("object") /\ Truthy(Get(param, KProperties))
             THEN ValidateProperties(Entries(Get(param, KProperties)), paramPath)
             ELSE Null
           items == Get(param, KItems)
       IN IF nested # Null THEN nested
          ELSE IF Get(param, KType) = S("array") /\ Truthy(items)
          THEN IF ~Truthy(Get(items, KType))
               THEN Str(<<"Items in array parameter \"">> \o paramPath \o <<"\" must specify a type">>)
               ELSE IF Get(items, KType) \notin validTypes
               THEN Str(<<"Items in array parameter \"">> \o paramPath \o <<"\" have invalid type \"">>
                          \o StringOf(Get(items, KType)) \o <<"\"">>)
               ELSE validateNestedParameter(items, paramPath \o <<" items">>)
          ELSE Null

\* lines 578-594: the loop over Object.entries(param.properties)
ValidateProperties(es, paramPath) ==
  IF es = << >> THEN Null
  ELSE LET nestedName == Head(es).k
           nestedParam == Head(es).v
           r == IF NoProps(nestedParam) THEN Thrown
                ELSE IF ~Truthy(Get(nestedParam, KType)) THEN MissingType(nestedName, paramPath)
                ELSE IF Get(nestedParam, KType) \notin validTypes
                THEN InvalidType(nestedName, paramPath, Get(nestedParam, KType))
                ELSE validateNestedParameter(nestedParam, paramPath \o <<".">> \o nestedName)
       IN IF r # Null THEN r ELSE ValidateProperties(Tail(es), paramPath)

RECURSIVE ValidateParameters(_)
\* lines 473-539: the loop over Object.entries(toolConfig.parameters)
ValidateParameters(es) ==
  IF es = << >> THEN Null
  ELSE LET paramName == Head(es).k
           param == Head(es).v
           r == IF NoProps(param) THEN Thrown
                ELSE IF ~Truthy(Get(param, KType))
                THEN Str(<<"Parameter \"">> \o paramName \o <<"\" is missing type property">>)
                ELSE IF Get(param, KType) \notin validTypes
                THEN Str(<<"Parameter \"">> \o paramName \o <<"\" has invalid type \"">>
                           \o StringOf(Get(param, KType)) \o <<"\"">>)
                ELSE validateNestedParameter(param, paramName)
       IN IF r # Null THEN r ELSE ValidateParameters(Tail(es))

\* lines 467-541: the body of the try block; config[toolName] finds
\* inherited properties too
ValidateToolBody(config, toolName) ==
  LET toolConfig == Lookup(config, toolName)
  IN IF ~Truthy(toolConfig)
     THEN Str(<<"Tool \"">> \o toolName \o <<"\" not found in configuration">>)
     ELSE IF Truthy(Get(toolConfig, KParameters))
     THEN ValidateParameters(Entries(Get(toolConfig, KParameters)))
     ELSE Null

\* the validator without its catch clause
validateToolConfig_Uncaught(config, toolName) == ValidateToolBody(config, toolName)

\* the validator looking only at the type of the top-level parameters
validateToolConfig_TopLevelOnly(config, toolName) ==
  LET es == Entries(Get(Get(config, toolName), KParameters))
  IN IF ~Truthy(Lookup(config, toolName)) THEN Str(<<"Tool not found">>)
     ELSE IF \A i \in DOMAIN es : Get(es[i].v, KType) \in validTypes THEN Null
     ELSE Str(<<"invalid type">>)

\* lines 466-554: what is raised inside is caught and reported as a message
validateToolConfig(config, toolName) ==
  LET r == ValidateToolBody(config, toolName)
  IN IF r = Thrown
     THEN Str(<<"Error validating tool configuration: ",
                "Cannot read properties of null (reading 'type')">>)
     ELSE r

\* malformed and unreached shapes next to the well-formed ones
ValidateLeaves ==
  CoreLeaves
    \cup {Null, Obj(<< >>), EnumMissing, Shape("", << >>),
          Shape("enum", <<Ent(KEnum, S("xy"))>>),
          Shape("string", <<Ent(KProperties, Obj(<<Ent(KA, UnknownTag)>>))>>),
          Shape("object", <<Ent(KItems, EnumOf(<< >>))>>),
          Shape("array", <<Ent(KItems, Null)>>)}

RECURSIVE ValidateShapes(_)
ValidateShapes(d) ==
  IF d = 0 THEN ValidateLeaves
  ELSE ValidateLeaves
         \cup {ArrayNoItems, ObjectNoProperties, ObjectShape(FALSE, << >>)}
         \cup {ArrayShape(s) : s \in ValidateShapes(d - 1) \ {Null}}
         \cup {ObjectShape(FALSE, <<Ent(KA, s)>>) : s \in ValidateShapes(d - 1)}
         \cup {ObjectShape(FALSE, <<Ent(KB, LeafStrReq), Ent(KA, s)>>) : s \in ValidateShapes(d - 1)}

ValidateConfigs ==
  {Obj(<< >>), Obj(<<Ent(KT, Obj(<<Ent(KDescription, S("d"))>>))>>)}
    \cup {Obj(<<Ent(KT, Obj(<<Ent(KParameters, Obj(<<Ent(KQ, s)>>))>>))>>) :
            s \in ValidateShapes(MaxDepth)}
    \cup {Obj(<<Ent(KT, Obj(<<Ent(KParameters, Obj(<<Ent(KQ, LeafNumOpt), Ent(KLevel, s)>>))>>))>>) :
            s \in ValidateShapes(1)}

ToolNamesAsked == {KT, KU, KToString}

InitValidate ==
  /\ vcConfig \in ValidateConfigs
  /\ vcName \in ToolNamesAsked
  /\ vcOut = Undef
  /\ vcPc = "ready"
  /\ InitCoreIdle
  /\ InitToolsRefIdle
  /\ InitStoreIdle
  /\ InitIncrIdle
  /\ InitPresetIdle

CallValidateToolConfig ==
  /\ vcPc = "ready"
  /\ vcOut' = validateToolConfig(vcConfig, vcName)
  /\ vcPc' = "done"
  /\ UNCHANGED <<vcConfig, vcName>>
  /\ UNCHANGED <<coreVars, toolsRefVars, storeVars, incrVars, presetVars>>

NextValidate == CallValidateToolConfig

SpecValidate == InitValidate /\ [][NextValidate]_vars

(***************************************************************************)
(* Claims about validateToolConfig                                         *)
(***************************************************************************)
RECURSIVE ShapeValid(_)
\* the shape and every shape reachable from it through the properties of an
\* object shape and the items of an array shape has one of the six type tags,
\* and every enum shape among them has a non-empty values array
ShapeValid(s) ==
  /\ s.t = "obj"
  /\ Get(s, KType) \in KnownTags
  /\ Get(s, KType) = S("enum") => (Get(s, KEnum).t = "arr" /\ Len(Get(s, KEnum).v) > 0)
  /\ (Get(s, KType) = S("object") /\ Get(s, KProperties).t = "obj") =>
       \A i \in DOMAIN Get(s, KProperties).v : ShapeValid(Get(s, KProperties).v[i].v)
  /\ (Get(s, KType) = S("array") /\ Get(s, KItems).t = "obj") => ShapeValid(Get(s, KItems))

RECURSIVE ReachesFallback(_)
\* the compilers (config.ts 653-711, 742-815), walking the shape, come to
\* a type tag outside their switch or to an enum without values
ReachesFallback(s) ==
  \/ Get(s, KType) \notin KnownTags
  \/ Get(s, KType) = S("enum") /\ ~(Truthy(Get(s, KEnum)) /\ Len(Get(s, KEnum).v) > 0)
  \/ /\ Get(s, KType) = S("object") /\ Truthy(Get(s, KProperties))
     /\ \E i \in DOMAIN Entries(Get(s, KProperties)) :
          ReachesFallback(Entries(Get(s, KProperties))[i].v)
  \/ Get(s, KType) = S("array") /\ Truthy(Get(s, KItems)) /\ ReachesFallback(Get(s, KItems))

ToolExists == vcName \in Keys(vcConfig)

ParametersAsked == Entries(Get(Get(vcConfig, vcName), KParameters))

AllShapesValid == \A i \in DOMAIN ParametersAsked : ShapeValid(ParametersAsked[i].v)

ValidatesExactlyValid ==
  /\ vcOut.t \in {"null", "str"}
  /\ vcOut = Null <=> (ToolExists /\ AllShapesValid)
  /\ (vcOut = Null /\ ToolExists) =>
       \A i \in DOMAIN ParametersAsked : ~ReachesFallback(ParametersAsked[i].v)

\* C27: validateToolConfig(config, tool) returns null exactly when the tool
\* exists in the config and every parameter shape reachable at any nesting
\* depth has one of the six valid type tags and every enum shape has a
\* non-empty values array; otherwise it returns an error message, and it
\* never throws; a tool that validates never reaches the compilers'
\* unknown-type or empty-enum fallback.
C27_ValidatesExactlyValid == vcPc = "done" => ValidatesExactlyValid

\* the same for tool names that Object.prototype does not define
C27_NamesNotInherited ==
  (vcPc = "done" /\ vcName \notin ObjectPrototypeNames) => ValidatesExactlyValid

\* a nested empty enum two levels down is reported
C27_NestedReported ==
  /\ vcPc = "done"
  /\ vcName = KT
  /\ Get(Get(vcConfig, KT), KParameters)
       = Obj(<<Ent(KQ, ArrayShape(ObjectShape(FALSE, <<Ent(KA, EnumOf(<< >>))>>)))>>)
  /\ vcOut = Str(<<"Parameter \"", "q", " items", ".", "a",
                   "\" of type \"enum\" must have a non-empty enum array">>)

\* a null shape raises inside and is reported as a message
C27_RaisedIsReported ==
  /\ vcPc = "done"
  /\ vcName = KT
  /\ Get(Get(Get(vcConfig, KT), KParameters), KQ) = Null
  /\ vcOut.t = "str"

(***************************************************************************)
(* Rendering a template in two passes                                      *)
(***************************************************************************)
\* "{{y}" : braces that close too early to be a token
Unfinished(name) == <<Open, Open>> \o name \o <<Close>>

IncrPieces ==
  {<<"t">>, <<Close>>, <<Open, Open>>, <<Close, Close>>,
   Token(KX), Token(<<Blank>> \o KY), Token(KToString), Unfinished(KY)}

RECURSIVE IncrTexts(_)
IncrTexts(n) ==
  IF n = 0 THEN {<< >>}
  ELSE IncrTexts(n - 1) \cup {p \o t : p \in IncrPieces, t \in IncrTexts(n - 1)}

\* argument sets with string values that hold no brace
PartialArguments ==
  {Obj(<< >>),
   Obj(<<Ent(KX, S("v"))>>),
   Obj(<<Ent(KX, EmptyStr)>>),
   Obj(<<Ent(KY, S("w"))>>),
   Obj(<<Ent(KY, EmptyStr)>>),
   Obj(<<Ent(KZ, S("u"))>>)}

InitIncr ==
  /\ irTemplate \in {Str(t) : t \in IncrTexts(MaxPieces)}
  /\ irA \in PartialArguments
  /\ irB \in PartialArguments
  /\ Keys(irA) \cap Keys(irB) = {}
  /\ irFirst = Undef /\ irSecond = Undef /\ irOnce = Undef
  /\ irPc = "ready"
  /\ InitCoreIdle
  /\ InitToolsRefIdle
  /\ InitStoreIdle
  /\ InitValidateIdle
  /\ InitPresetIdle

\* the template is rendered against the first argument set
RenderFirst ==
  /\ irPc = "ready"
  /\ irFirst' = processTemplate(irTemplate, irA)
  /\ irPc' = "first"
  /\ UNCHANGED <<irTemplate, irA, irB, irSecond, irOnce>>
  /\ UNCHANGED <<coreVars, toolsRefVars, storeVars, validateVars, presetVars>>

\* the text of the first pass is rendered against the second argument set
RenderSecond ==
  /\ irPc = "first"
  /\ irSecond' = processTemplate(irFirst.result, irB)
  /\ irPc' = "second"
  /\ UNCHANGED <<irTemplate, irA, irB, irFirst, irOnce>>
  /\ UNCHANGED <<coreVars, toolsRefVars, storeVars, validateVars, presetVars>>

\* the template is rendered against both argument sets at once
RenderOnce ==
  /\ irPc = "second"
  /\ irOnce' = processTemplate(irTemplate, Obj(Entries(irA) \o Entries(irB)))
  /\ irPc' = "done"
  /\ UNCHANGED <<irTemplate, irA, irB, irFirst, irSecond>>
  /\ UNCHANGED <<coreVars, toolsRefVars, storeVars, validateVars, presetVars>>

NextIncr == RenderFirst \/ RenderSecond \/ RenderOnce

SpecIncr == InitIncr /\ [][NextIncr]_vars

(***************************************************************************)
(* Claims about incremental rendering                                      *)
(***************************************************************************)
SameAsOneShot ==
  /\ irSecond.result = irOnce.result
  /\ irFirst.usedParams \cup irSecond.usedParams = irOnce.usedParams

\* C28 as stated: for argument sets A and B with disjoint names whose string
\* values contain no brace, rendering against A and then against B gives the
\* same text as rendering against A union B, and the union of the two
\* used-sets is the used-set of the one-shot call.
C28_IncrementalAsStated == irPc = "done" => SameAsOneShot

NoEmptyValue(ps) == \A i \in DOMAIN Entries(ps) : Entries(ps)[i].v # EmptyStr

\* C28: for argument sets A and B with disjoint names whose string values
\* are non-empty and contain no brace, rendering against A and then against
\* B gives the same text as rendering against A union B, and the union of
\* the two used-sets is the used-set of the one-shot call.
C28_Incremental ==
  (irPc = "done" /\ NoEmptyValue(irA) /\ NoEmptyValue(irB)) => SameAsOneShot

\* "{{x}}t{{ y}}" with A = {x: "v"} and B = {y: "w"} : "vtw" either way
C28_Witness ==
  /\ irPc = "done"
  /\ irTemplate = Str(Token(KX) \o <<"t">> \o Token(<<Blank>> \o KY))
  /\ irA = Obj(<<Ent(KX, S("v"))>>)
  /\ irB = Obj(<<Ent(KY, S("w"))>>)
  /\ irFirst.result = Str(<<"v", "t">> \o Token(<<Blank>> \o KY))
  /\ irSecond.result = Str(<<"v", "t", "w">>)
  /\ irOnce.result = Str(<<"v", "t", "w">>)
  /\ irOnce.usedParams = {KX, KY}

(***************************************************************************)
(* loadConfig and loadConfigSync (config.ts 279-328, 370-452)              *)
(***************************************************************************)
\* config.ts 95: the module's one default configuration object
defaultConfig == Ref(AccRef)

MaxLoads == 3

\* why a load falls back to the default configuration
FallbackReasons == {"no path", "not a directory", "wrong name", "no yaml files"}

\* the documents a configuration directory holds: those that declare u only
LoadSources == {source \in AliasSources : KT \notin Keys(source)}

InitLoad ==
  /\ stStore = << << >> >>
  /\ stRoots = << >>
  /\ stParsed = << >>
  /\ stBefore = << << >> >>
  /\ stGot = << >>
  /\ stPc = "none"
  /\ InitCoreIdle
  /\ InitToolsRefIdle
  /\ InitValidateIdle
  /\ InitIncrIdle
  /\ InitPresetIdle

\* lines 373-416: every fallback returns defaultConfig itself
LoadFallback(reason) ==
  /\ Len(stGot) < MaxLoads
  /\ stGot' = Append(stGot, defaultConfig)
  /\ stParsed' = Append(stParsed, Deref(stStore, defaultConfig))
  /\ stPc' = reason
  /\ UNCHANGED <<stStore, stRoots, stBefore>>
  /\ UNCHANGED <<coreVars, toolsRefVars, validateVars, incrVars, presetVars>>

\* lines 419-445: a directory with one document is merged into a new object
LoadDirectory(source) ==
  /\ Len(stGot) < MaxLoads
  /\ LET mergedConfig == New(stStore, << >>)
         fileConfig == Alloc(mergedConfig.st, source)
         st == mergeConfigsH(fileConfig.st, mergedConfig.v.v, fileConfig.v.v).st
     IN /\ stStore' = st
        /\ stGot' = Append(stGot, mergedConfig.v)
        /\ stParsed' = Append(stParsed, Deref(st, mergedConfig.v))
  /\ stBefore' = stStore
  /\ stPc' = "directory"
  /\ UNCHANGED stRoots
  /\ UNCHANGED <<coreVars, toolsRefVars, validateVars, incrVars, presetVars>>

\* a caller merges one loaded configuration into another one
CallerMerges(i, j) ==
  /\ Len(stRoots) < MaxSources
  /\ stGot[i] # stGot[j]
  /\ stBefore' = stStore
  /\ stStore' = mergeConfigsH(stStore, stGot[i].v, stGot[j].v).st
  /\ stRoots' = Append(stRoots, <<i, j>>)
  /\ stPc' = "merged"
  /\ UNCHANGED <<stParsed, stGot>>
  /\ UNCHANGED <<coreVars, toolsRefVars, validateVars, incrVars, presetVars>>

NextLoad ==
  \/ \E reason \in FallbackReasons : LoadFallback(reason)
  \/ \E source \in LoadSources : LoadDirectory(source)
  \/ \E i, j \in DOMAIN stGot : CallerMerges(i, j)

SpecLoad == InitLoad /\ [][NextLoad]_vars

(***************************************************************************)
(* Claims about the default configuration                                  *)
(***************************************************************************)
\* C29: every call to loadConfig or loadConfigSync without a usable
\* directory returns an empty configuration, in every reachable state: also
\* after a caller has used the result of an earlier such call as the target
\* of mergeConfigs.
C29_FallbackIsEmpty ==
  \A k \in DOMAIN stGot : stGot[k] = defaultConfig => stParsed[k] = Obj(<< >>)

\* the same while no caller has merged into a configuration it was given
C29_EmptyBeforeAnyMerge ==
  stRoots = << >> => C29_FallbackIsEmpty

C29_FallbackReached ==
  /\ stPc = "no yaml files"
  /\ Len(stGot) = 2
  /\ stGot[2] = defaultConfig
  /\ stParsed[2] = Obj(<< >>)

(***************************************************************************)
(* loadPresetConfigs (config.ts 242-270, preset.ts 70-98)                  *)
(***************************************************************************)
MaxPresets == 3

\* what stands under a preset's name in the presets directory
File(ext, content) == [ext |-> ext, content |-> content]

Unreadable == [t |-> "unreadable"]
SyntaxError == [t |-> "syntax error"]

PresetConfigs ==
  {Obj(<<Ent(KT, Decl(<< >>, Str(<<"a">>)))>>),
   Obj(<<Ent(KT, Decl(<<Ent(KPrompt, Str(<<"p1">>))>>, Str(<<"b", Comma, Blank, "a">>)))>>),
   Obj(<<Ent(KU, Decl(<< >>, ToolsDescA)), Ent(KT, Decl(<<Ent(KPrompt, Str(<<"p2">>))>>, Undef))>>)}

\* no file; name.yml only; name.yaml that cannot be read, does not parse, or
\* parses to nothing, a scalar, null, a list or a configuration
Files ==
  {File("none", Undef)}
    \cup {File("yml", c) : c \in {CHOOSE c \in PresetConfigs : TRUE}}
    \cup {File("yaml", c) :
            c \in {Unreadable, SyntaxError, Undef, S("text"), Null, Arr(<<S("a")>>)}
                    \cup PresetConfigs}

PresetNames == {KA, KB}
NamesAsked == {<< >>, KA, KB, KC}

\* config.ts 213-234: the names of the .yaml and .yml files of the directory
listAvailablePresets(files) == {n \in DOMAIN files : files[n].ext \in {"yaml", "yml"}}

\* config.ts 191-211: the file name.yaml read and parsed; {} when reading or
\* parsing raises or the type of what was parsed is not "object"
loadPresetConfig(file) ==
  IF file.ext # "yaml" \/ file.content \in {Unreadable, SyntaxError} THEN Obj(<< >>)
  ELSE IF TypeOf(file.content) # "object" THEN Obj(<< >>)
  ELSE file.content

\* Object.entries(x): the elements of a list under their indexes
EntriesOf(x) ==
  IF x.t = "arr" THEN [i \in DOMAIN x.v |-> Ent(DecimalText(i - 1), x.v[i])] ELSE Entries(x)

\* lines 248-263: the body of the try block for one name, on the properties
\* of mergedConfig; Object.entries(null) raises before anything is merged
AttemptPreset(merged, preset, files) ==
  IF ~Truthy(Str(preset)) THEN [threw |-> FALSE, merged |-> merged]
  ELSE IF preset \notin listAvailablePresets(files) THEN [threw |-> FALSE, merged |-> merged]
  ELSE LET presetConfig == loadPresetConfig(files[preset])
       IN IF NoProps(presetConfig) THEN [threw |-> TRUE, merged |-> merged]
          ELSE [threw |-> FALSE,
                merged |-> MergeConfigEntries(merged, EntriesOf(presetConfig))]

RECURSIVE LoadPresetsFrom_Uncaught(_, _, _)
\* a loop whose body is not guarded
LoadPresetsFrom_Uncaught(merged, presets, files) ==
  IF presets = << >> THEN [threw |-> FALSE, merged |-> merged]
  ELSE LET r == AttemptPreset(merged, Head(presets), files)
       IN IF r.threw THEN r ELSE LoadPresetsFrom_Uncaught(r.merged, Tail(presets), files)

RECURSIVE LoadPresetsFrom_StopAtFirstBad(_, _, _)
\* a loop that gives up at the first preset that contributes nothing
LoadPresetsFrom_StopAtFirstBad(merged, presets, files) ==
  IF presets = << >> THEN [threw |-> FALSE, merged |-> merged]
  ELSE LET r == AttemptPreset(merged, Head(presets), files)
       IN IF r.threw \/ r.merged = merged THEN [threw |-> FALSE, merged |-> merged]
          ELSE LoadPresetsFrom_StopAtFirstBad(r.merged, Tail(presets), files)

RECURSIVE LoadPresetsFrom(_, _, _)
\* lines 246-267: the loop; what an iteration raises is caught and logged
LoadPresetsFrom(merged, presets, files) ==
  IF presets = << >> THEN [threw |-> FALSE, merged |-> merged]
  ELSE LoadPresetsFrom(AttemptPreset(merged, Head(presets), files).merged,
                       Tail(presets), files)

loadPresetConfigs(presets, files) ==
  LET r == LoadPresetsFrom(<< >>, presets, files)
  IN IF r.threw THEN Thrown ELSE Obj(r.merged)

InitPresets ==
  /\ psFiles \in [PresetNames -> Files]
  /\ psNames \in UNION {[1..n -> NamesAsked] : n \in 0..MaxPresets}
  /\ psOut = Undef
  /\ psPc = "ready"
  /\ InitCoreIdle
  /\ InitToolsRefIdle
  /\ InitStoreIdle
  /\ InitValidateIdle
  /\ InitIncrIdle

CallLoadPresetConfigs ==
  /\ psPc = "ready"
  /\ psOut' = loadPresetConfigs(psNames, [n \in NamesAsked |->
                                            IF n \in PresetNames THEN psFiles[n]
                                            ELSE File("none", Undef)])
  /\ psPc' = "done"
  /\ UNCHANGED <<psNames, psFiles>>
  /\ UNCHANGED <<coreVars, toolsRefVars, storeVars, validateVars, incrVars>>

NextPresets == CallLoadPresetConfigs

SpecPresets == InitPresets /\ [][NextPresets]_vars

(***************************************************************************)
(* Claims about loadPresetConfigs                                          *)
(***************************************************************************)
\* the preset's file name.yaml is there, can be read and parses to an object
\* (a mapping or a list, not null)
ParsesToObject(n) ==
  /\ n \in PresetNames
  /\ psFiles[n].ext = "yaml"
  /\ psFiles[n].content.t \in {"obj", "arr"}

RECURSIVE Remaining(_)
\* the configurations of the presets that contribute, in the order asked
Remaining(names) ==
  IF names = << >> THEN << >>
  ELSE (IF ParsesToObject(Head(names))
        THEN <<Obj(EntriesOf(psFiles[Head(names)].content))>> ELSE << >>)
         \o Remaining(Tail(names))

C30_NullSkipped ==
  /\ psPc = "done"
  /\ psNames = <<KA, KB>>
  /\ psFiles[KA] = File("yaml", Null)
  /\ ParsesToObject(KB)
  /\ psOut = Obj(EntriesOf(psFiles[KB].content))
  /\ psOut # Obj(<< >>)

====
